---- MODULE Spec2Model ----
(***************************************************************************)
(* Model of the Bybit scanner (scanner.py), its Telegram UI                *)
(* (telegram_ui.py) and the wiring of the two (app.py).                    *)
(*                                                                         *)
(* Strings are sequences of characters, so that upper-casing    *)
(* and trimming are computed.  Numbers read from the exchange are values   *)
(* [k, v]: k = "num" is text float() parses (value v), k = "bad" is text   *)
(* float() rejects.  A dict is a record with a field `has`, the set of     *)
(* keys present.  Prices, volumes and thresholds are integers; a           *)
(* percentage comparison a/b*100 >= t is computed exactly, by cross        *)
(* multiplication with the sign of b.                                      *)
(***************************************************************************)
EXTENDS Integers, Sequences, FiniteSets, TLC

VARIABLES
    config,          \* config.py: the settings the model reads
    previous_data,   \* BybitScanner.previous_data: symbol -> <<ticker>> or <<>>
    alerts_sent,     \* BybitScanner.alerts_sent
    pc,              \* position of BybitScanner.run / scan_symbols
    tickers,         \* scan_symbols: the fetched tickers
    symbols_to_scan, \* scan_symbols: the filtered tickers
    idx,             \* scan_symbols: index of the next ticker of the symbol loop
    alerts,          \* scan_symbols: the cycle's aggregate
    didx,            \* scan_symbols: index of the next alert of the send loop
    cycles,          \* number of scan cycles started
    hist,            \* history of the current cycle (observation only)
    telegram_ui,     \* telegram_ui.py: the module global (None or the instance)
    ui,              \* the TelegramUI instance serving the subscribers
    last,            \* the last UI event and what it answered (observation only)
    vs,              \* inputs and result of one analyze_volume_spike call
    seen,            \* app.py: what the last call of api_symbols read
    app              \* app.py: scanner_status, the scanner threads, the global scanner

scanVars == <<config, previous_data, alerts_sent, pc, tickers, symbols_to_scan,
              idx, alerts, didx, cycles, hist>>
uiVars == <<telegram_ui, ui, last>>
vars == <<config, previous_data, alerts_sent, pc, tickers, symbols_to_scan,
          idx, alerts, didx, cycles, hist, telegram_ui, ui, last, vs, seen, app>>

----------------------------------------------------------------------------
(* Bounds of the model *)

MaxTickers == 3
MaxCycles == 2
NumUsers == 2
MaxVolume == 4

(* scanner.py line 371 processes symbols_to_scan[:50]; the model scales the
   cap of 50 to 2 so that lists longer than the cap are reached. *)
MaxSymbolsPerCycle == 2

----------------------------------------------------------------------------
(* Text *)

BTC == <<"B", "T", "C">>
ETH == <<"E", "T", "H">>

\* str.upper() of one character; "sz" stands for the one character sharp s,
\* whose upper case is the two letters SS
UpperChar(c) ==
    CASE c = "a" -> <<"A">>
      [] c = "b" -> <<"B">>
      [] c = "c" -> <<"C">>
      [] c = "e" -> <<"E">>
      [] c = "h" -> <<"H">>
      [] c = "t" -> <<"T">>
      [] c = "sz" -> <<"S", "S">>
      [] OTHER -> <<c>>

RECURSIVE Upper(_)
Upper(s) == IF s = <<>> THEN <<>> ELSE UpperChar(Head(s)) \o Upper(Tail(s))

IsSpace(c) == c \in {" ", "\t", "\n"}

RECURSIVE LStrip(_)
LStrip(s) == IF s # <<>> /\ IsSpace(Head(s)) THEN LStrip(Tail(s)) ELSE s

RECURSIVE RStrip(_)
RStrip(s) ==
    IF s # <<>> /\ IsSpace(s[Len(s)]) THEN RStrip(SubSeq(s, 1, Len(s) - 1)) ELSE s

Strip(s) == RStrip(LStrip(s))

\* str.startswith
StartsWith(s, p) == Len(s) >= Len(p) /\ SubSeq(s, 1, Len(p)) = p

----------------------------------------------------------------------------
(* Values and dicts read from the exchange *)

Num(n) == [k |-> "num", v |-> n]
Bad == [k |-> "bad", v |-> 0]

\* the text "nan": float() parses it, and every comparison with the result
\* is False
NaN == [k |-> "nan", v |-> 0]

\* float(x) raises ValueError unless x is numeric text
Parses(x) == x.k \in {"num", "nan"}

\* float(x) is a number that compares
IsNum(x) == x.k = "num"

\* dict.get(key, 0)
Get(d, key) == IF key \in d.has THEN d[key] ELSE Num(0)

Ticker(has, symbol, volume24h, lastPrice) ==
    [has |-> has, symbol |-> symbol, volume24h |-> volume24h, lastPrice |-> lastPrice]

\* x in list
InList(x, l) == \E i \in DOMAIN l : l[i] = x

\* the Telegram users of the model
Users == 1..NumUsers

AllKeys == {"symbol", "volume24h", "lastPrice"}

\* a candle of get_kline: [start, open, high, low, close, ...]; the model
\* keeps the fields the detectors read
Kline(high, low, close) == [high |-> high, low |-> low, close |-> close]

\* a/b*100 >= t, for b # 0
PctGE(a, b, t) == IF b > 0 THEN a * 100 >= t * b ELSE a * 100 <= t * b

\* a/b*100 <= t, for b # 0
PctLE(a, b, t) == IF b > 0 THEN a * 100 <= t * b ELSE a * 100 >= t * b

----------------------------------------------------------------------------
(* config.py *)

Configs ==
    [TELEGRAM_BOT_TOKEN : BOOLEAN,
     TELEGRAM_CHAT_ID : {TRUE},
     VOLUME_SPIKE_THRESHOLD : {2},
     PRICE_PUMP_THRESHOLD : {5},
     PRICE_DUMP_THRESHOLD : {-5},
     VOLATILITY_THRESHOLD : {10},
     MIN_VOLUME_24H : {1},
     MIN_PRICE : {0, 1},
     MAX_PRICE : {100000},
     BREAKOUT_LOOKBACK_PERIODS : {3}]

\* Config.validate: raises ValueError when the bot token is missing (the
\* only entry of required_fields, line 57); the chat id is not looked at
validate(cfg) == cfg.TELEGRAM_BOT_TOKEN

\* the defaults of config.py, with a bot token
DefaultConfig == CHOOSE c \in Configs : c.TELEGRAM_BOT_TOKEN /\ c.MIN_PRICE = 1

----------------------------------------------------------------------------
(* scanner.py: the detectors.  A detector returns <<>> (None) or <<alert>>. *)

Alert(type, symbol) == [type |-> type, symbol |-> symbol]

\* analyze_volume_spike with > for the >= of line 157
analyze_volume_spike_strict(cfg, symbol, current_data, prev_data) ==
    LET cur == Get(current_data, "volume24h")
        prev == Get(prev_data, "volume24h")
    IN  IF ~Parses(cur) \/ ~Parses(prev) THEN <<>>
        ELSE IF ~IsNum(cur) \/ ~IsNum(prev) THEN <<>>
        ELSE IF prev.v = 0 THEN <<>>
        ELSE IF ~PctLE(cur.v - prev.v, prev.v, cfg.VOLUME_SPIKE_THRESHOLD * 100)
             THEN <<Alert("volume_spike", symbol)>>
             ELSE <<>>

analyze_volume_spike(cfg, symbol, current_data, prev_data) ==
    LET cur == Get(current_data, "volume24h")
        prev == Get(prev_data, "volume24h")
    IN  IF ~Parses(cur) \/ ~Parses(prev) THEN <<>>      \* ValueError, caught
        ELSE IF ~IsNum(cur) \/ ~IsNum(prev) THEN <<>>  \* nan >= t is False
        ELSE IF prev.v = 0 THEN <<>>
        ELSE IF PctGE(cur.v - prev.v, prev.v, cfg.VOLUME_SPIKE_THRESHOLD * 100)
             THEN <<Alert("volume_spike", symbol)>>
             ELSE <<>>

\* analyze_price_movement with the dump test before the pump test
analyze_price_movement_dump_first(cfg, symbol, klines) ==
    IF Len(klines) < 5 THEN <<>>
    ELSE LET cur == klines[1].close
             ago == klines[5].close
         IN  IF ~IsNum(cur) \/ ~IsNum(ago) THEN <<>>
             ELSE IF ago.v = 0 THEN <<>>
             ELSE IF PctLE(cur.v - ago.v, ago.v, cfg.PRICE_DUMP_THRESHOLD)
                  THEN <<Alert("price_dump", symbol)>>
             ELSE IF PctGE(cur.v - ago.v, ago.v, cfg.PRICE_PUMP_THRESHOLD)
                  THEN <<Alert("price_pump", symbol)>>
             ELSE <<>>

analyze_price_movement(cfg, symbol, klines) ==
    IF Len(klines) < 5 THEN <<>>
    ELSE LET cur == klines[1].close
             ago == klines[5].close
         IN  IF ~Parses(cur) \/ ~Parses(ago) THEN <<>>  \* ValueError, caught
             ELSE IF ~IsNum(cur) \/ ~IsNum(ago) THEN <<>>  \* nan: both tests False
             ELSE IF ago.v = 0 THEN <<>>                \* ZeroDivisionError, caught
             ELSE IF PctGE(cur.v - ago.v, ago.v, cfg.PRICE_PUMP_THRESHOLD)
                  THEN <<Alert("price_pump", symbol)>>
             ELSE IF PctLE(cur.v - ago.v, ago.v, cfg.PRICE_DUMP_THRESHOLD)
                  THEN <<Alert("price_dump", symbol)>>
             ELSE <<>>

\* the candle parses and its range can be divided by its close
KlineOk(c) ==
    /\ Parses(c.high) /\ Parses(c.low) /\ Parses(c.close)
    /\ IsNum(c.close) => c.close.v # 0

\* analyze_volatility without the test of line 208: any window that has a
\* newest candle is analysed
analyze_volatility_any_window(cfg, symbol, klines) ==
    IF Len(klines) < 1 THEN <<>>
    ELSE IF \E i \in DOMAIN klines : ~KlineOk(klines[i]) THEN <<>>
    ELSE LET c == klines[1]
         IN  IF ~IsNum(c.high) \/ ~IsNum(c.low) \/ ~IsNum(c.close) THEN <<>>
             ELSE IF PctGE(c.high.v - c.low.v, c.close.v, cfg.VOLATILITY_THRESHOLD)
             THEN <<Alert("volatility_spike", symbol)>>
             ELSE <<>>

analyze_volatility(cfg, symbol, klines) ==
    IF Len(klines) < 10 THEN <<>>
    ELSE IF \E i \in 1..10 : ~KlineOk(klines[i]) THEN <<>>   \* caught
    ELSE LET c == klines[1]
         IN  IF ~IsNum(c.high) \/ ~IsNum(c.low) \/ ~IsNum(c.close) THEN <<>>
             ELSE IF PctGE(c.high.v - c.low.v, c.close.v, cfg.VOLATILITY_THRESHOLD)
             THEN <<Alert("volatility_spike", symbol)>>
             ELSE <<>>

SetMax(S) == CHOOSE x \in S : \A y \in S : y <= x
SetMin(S) == CHOOSE x \in S : \A y \in S : x <= y

\* The products resistance * 1.001 and support * 0.999 of lines 248 and 256
\* are IEEE-754 doubles.  A price of the model is a whole number, so it can
\* equal the exact product only for a level that is a multiple of 1000; for
\* those levels of the model the double resistance * 1.001 is below the exact
\* product (1000 * 1.001 is 1000.9999999999999, 2000 * 1.001 is
\* 2001.9999999999998) and the double support * 0.999 is the exact product
\* (999.0, 1998.0).
Below1001(level) == level \in {1000, 2000}

\* current_price > resistance * 1.001
AboveBuffer(current_price, resistance) ==
    \/ current_price * 1000 > resistance * 1001
    \/ current_price * 1000 = resistance * 1001 /\ Below1001(resistance)

\* current_price < support * 0.999
UnderBuffer(current_price, support) == current_price * 1000 < support * 999

\* max(highs), min(lows): a nan that comes first stays (no number compares
\* above or below it), a later nan is passed over
ListMax(l) == SetMax({l[i].v : i \in {j \in DOMAIN l : IsNum(l[j])}})
ListMin(l) == SetMin({l[i].v : i \in {j \in DOMAIN l : IsNum(l[j])}})

analyze_breakout(cfg, symbol, klines, current_price) ==
    LET n == cfg.BREAKOUT_LOOKBACK_PERIODS
    IN  IF Len(klines) < n THEN <<>>
        ELSE IF \E i \in 1..n : ~Parses(klines[i].high) \/ ~Parses(klines[i].low)
             THEN <<>>                                   \* ValueError, caught
        ELSE IF n = 0 THEN <<>>                          \* max([]) raises, caught
        ELSE LET highs == [i \in 1..n |-> klines[i].high]
                 lows == [i \in 1..n |-> klines[i].low]
             IN  IF IsNum(current_price) /\ IsNum(highs[1])
                    /\ AboveBuffer(current_price.v, ListMax(highs))
                 THEN <<Alert("breakout_up", symbol)>>
                 ELSE IF IsNum(current_price) /\ IsNum(lows[1])
                         /\ UnderBuffer(current_price.v, ListMin(lows))
                 THEN <<Alert("breakout_down", symbol)>>
                 ELSE <<>>

should_scan_symbol(cfg, ticker) ==
    LET volume_24h == Get(ticker, "volume24h")
        price == Get(ticker, "lastPrice")
    IN  IF ~Parses(volume_24h) \/ ~Parses(price) THEN FALSE   \* caught
        ELSE IF IsNum(volume_24h) /\ volume_24h.v < cfg.MIN_VOLUME_24H THEN FALSE
        ELSE IF IsNum(price) /\ (price.v < cfg.MIN_PRICE \/ price.v > cfg.MAX_PRICE)
             THEN FALSE
        ELSE TRUE

\* the comprehension with a filter that gives up at the first ticker whose
\* numbers do not parse
RECURSIVE Filter_Aborting(_, _)
Filter_Aborting(cfg, ts) ==
    IF ts = <<>> THEN <<>>
    ELSE IF ~Parses(Get(Head(ts), "volume24h")) \/ ~Parses(Get(Head(ts), "lastPrice"))
    THEN <<>>
    ELSE (IF should_scan_symbol(cfg, Head(ts)) THEN <<Head(ts)>> ELSE <<>>)
         \o Filter_Aborting(cfg, Tail(ts))

\* the comprehension of scan_symbols lines 362-365
RECURSIVE Filter(_, _)
Filter(cfg, ts) ==
    IF ts = <<>> THEN <<>>
    ELSE (IF should_scan_symbol(cfg, Head(ts)) THEN <<Head(ts)>> ELSE <<>>)
         \o Filter(cfg, Tail(ts))

\* symbols_to_scan without the slice of line 371
Uncapped(ts) == ts

\* symbols_to_scan[:50]
Capped(ts) == SubSeq(ts, 1, IF Len(ts) < MaxSymbolsPerCycle THEN Len(ts)
                                                           ELSE MaxSymbolsPerCycle)

----------------------------------------------------------------------------
(* Inputs of the model: what the exchange may answer *)

Symbols == {BTC, ETH}

\* tickers of get_tickers: two well-formed ones of one symbol, one whose
\* volume is no number, one without lastPrice, one without symbol
TickerInputs ==
    {Ticker(AllKeys, BTC, Num(1), Num(1000)),
     Ticker(AllKeys, BTC, Num(3), Num(1000)),
     Ticker(AllKeys, BTC, Bad, Num(1000)),
     Ticker(AllKeys \ {"lastPrice"}, ETH, Num(1), Num(0)),
     Ticker(AllKeys \ {"symbol"}, <<>>, Num(1), Num(1000))}

\* the answers of get_ticker_data: every list of at most MaxTickers tickers
\* (<<>> is also the answer of a failed call)
TickerLists == UNION {[1..n -> TickerInputs] : n \in 0..MaxTickers}

FlatKline == Kline(Num(1000), Num(1000), Num(1000))

\* candle windows of get_kline_data, newest first: none (also the answer of a
\* failed call), ten flat candles, and ten candles whose newest close is 5%
\* above the others
KlineInputs ==
    {<<>>,
     [i \in 1..10 |-> FlatKline],
     [i \in 1..10 |-> IF i = 1 THEN Kline(Num(1050), Num(1000), Num(1050))
                               ELSE FlatKline]}

----------------------------------------------------------------------------
(* scanner.py: scan_symbols and run *)

\* what the model records of a cycle: the indices (in the capped list) of the
\* tickers whose pass through the loop body completed, raised into the inner
\* except, or raised outside it; the indices (in alerts) of the alerts sent to
\* the broadcast chat, the pairs <<alert index, user>> sent to UI users, and
\* the pairs <<alert index, user>> of the users whose watchlist held the
\* alert's symbol when the alert was dispatched; for each pass in turn the
\* candles it fetched (klines) and the store entry of its symbol before it
\* (before); for each alert in turn the index of the pass that appended it
\* (origin); the <<symbol, type>> of the alerts of the cycle before
\* (earlier); the deliveries attempted and the sleeps taken by the send loop,
\* in turn (sent); the store as it was when the cycle started (pre); whether
\* run sent its startup message (startup); and how the cycle before ended
\* (prior)
NoHist == [done |-> {}, raised |-> {}, aborted |-> {},
           broadcast |-> {}, userSends |-> {}, watching |-> {},
           klines |-> <<>>, before |-> <<>>, origin |-> <<>>, earlier |-> {},
           sent |-> <<>>, pre |-> [s \in Symbols |-> <<>>], startup |-> FALSE,
           prior |-> "none", delivered |-> 0]

\* self.telegram_chat_id, the destination of send_telegram_message, among the
\* chat ids of the users
Chat == 0

\* a delivery attempted for the alert of index `alert` to the chat `to`, and
\* whether it succeeded
Message(alert, to, ok) == [kind |-> "message", alert |-> alert, to |-> to, ok |-> ok]

\* asyncio.sleep(1) of line 430, after the deliveries of the alert
Delay(alert) == [kind |-> "delay", alert |-> alert, to |-> Chat, ok |-> TRUE]

\* the number of deliveries to the chat, among `sent`, that succeeded
Succeeded(sent) ==
    Cardinality({k \in DOMAIN sent :
                    sent[k].kind = "message" /\ sent[k].to = Chat /\ sent[k].ok})

\* scan_symbols, lines 376-379: the volume analysis of a ticker against the
\* store
VolumeCheck(cfg, pd, ticker) ==
    IF pd[ticker.symbol] # <<>>
    THEN analyze_volume_spike(cfg, ticker.symbol, ticker, pd[ticker.symbol][1])
    ELSE <<>>

Pass(end, store, new) == [end |-> end, store |-> store, new |-> new]

\* ScanOne with line 401 run only for a symbol that alerted
ScanOne_StoreOnAlert(cfg, pd, ticker, klines) ==
    IF "symbol" \notin ticker.has THEN Pass("aborted", FALSE, <<>>)
    ELSE
    LET symbol == ticker.symbol
        volume_alert == VolumeCheck(cfg, pd, ticker)
        candle_alerts == analyze_price_movement(cfg, symbol, klines)
                         \o analyze_volatility(cfg, symbol, klines)
    IN  IF klines = <<>> THEN Pass("ok", volume_alert # <<>>, volume_alert)
        ELSE IF "lastPrice" \notin ticker.has \/ ~Parses(ticker.lastPrice)
        THEN Pass("raised", FALSE, volume_alert \o candle_alerts)
        ELSE LET all == volume_alert \o candle_alerts
                        \o analyze_breakout(cfg, symbol, klines, ticker.lastPrice)
             IN  Pass("ok", all # <<>>, all)

\* ScanOne with a candle fetch whose failure reaches the pass as an exception
ScanOne_FetchRaises(cfg, pd, ticker, klines) ==
    IF "symbol" \notin ticker.has THEN Pass("aborted", FALSE, <<>>)
    ELSE
    LET symbol == ticker.symbol
        volume_alert == VolumeCheck(cfg, pd, ticker)
        candle_alerts == analyze_price_movement(cfg, symbol, klines)
                         \o analyze_volatility(cfg, symbol, klines)
    IN  IF klines = <<>> THEN Pass("raised", FALSE, volume_alert)
        ELSE IF "lastPrice" \notin ticker.has \/ ~Parses(ticker.lastPrice)
        THEN Pass("raised", FALSE, volume_alert \o candle_alerts)
        ELSE Pass("ok", TRUE,
                  volume_alert \o candle_alerts
                  \o analyze_breakout(cfg, symbol, klines, ticker.lastPrice))

\* One pass of the body of the symbol loop (lines 372-408) for `ticker` with
\* the candles `klines`: how the pass ended ("ok", "raised": the inner except
\* of line 406, "aborted": KeyError at line 372, outside the inner try, so the
\* outer except of line 437), whether line 401 stored the ticker, and the
\* alerts appended
ScanOne(cfg, pd, ticker, klines) ==
    IF "symbol" \notin ticker.has THEN Pass("aborted", FALSE, <<>>)
    ELSE
    LET symbol == ticker.symbol
        volume_alert == VolumeCheck(cfg, pd, ticker)
        candle_alerts == analyze_price_movement(cfg, symbol, klines)
                         \o analyze_volatility(cfg, symbol, klines)
    IN  IF klines = <<>> THEN Pass("ok", TRUE, volume_alert)
        ELSE IF "lastPrice" \notin ticker.has \/ ~Parses(ticker.lastPrice)
        THEN Pass("raised", FALSE, volume_alert \o candle_alerts)
        ELSE Pass("ok", TRUE,
                  volume_alert \o candle_alerts
                  \o analyze_breakout(cfg, symbol, klines, ticker.lastPrice))

\* a cycle without alerts followed at once by the next one
AfterSymbols_NoSleep(as) == IF as = <<>> THEN "scan" ELSE "send"

\* the alerts so far handed to the send loop before the next symbol
NextSymbol_SendFirst(as) == IF as # <<>> THEN "send" ELSE "symbols"

\* where scan_symbols goes after a symbol that is not the last one: the for
\* loop of line 371 takes the next symbol, whatever the alerts so far
NextSymbol(as) == "symbols"

\* where scan_symbols goes after the symbol loop
AfterSymbols(as) == IF as = <<>> THEN "sleep" ELSE "send"

\* scan_symbols, lines 437-438: whether an exception of a pass that ended as
\* `end` leaves scan_symbols.  The outer except catches every Exception and
\* logs it, so none does.
Escapes(end) == FALSE

\* the loop of run left once scan_symbols has logged an exception
AfterScan_Exit(raised) == IF raised THEN "backoff" ELSE "stopped"

\* run, lines 474-490: where the loop goes after scan_symbols; `raised` is
\* whether an exception reached the try of line 474.  "sleep" is the sleep of
\* SCAN_INTERVAL_SECONDS (line 483), "backoff" the sleep of 30 s (line 490).
AfterScan(raised) == IF raised THEN "backoff" ELSE "sleep"

\* run, lines 457-470: validate the configuration, send the startup message
\* when a chat id is configured, then enter the loop
RunStart ==
    /\ pc = "start"
    /\ pc' = IF validate(config) THEN "scan" ELSE "stopped"
    /\ hist' = [hist EXCEPT !.startup = validate(config) /\ config.TELEGRAM_CHAT_ID]
    /\ UNCHANGED <<config, previous_data, alerts_sent, tickers, symbols_to_scan,
                   idx, alerts, didx, cycles, telegram_ui, ui, last, vs, seen, app>>

\* the fetch with a store that is emptied when no ticker comes back
ScanFetchOf_Clearing(lists) ==
    /\ pc = "scan"
    /\ cycles < MaxCycles
    /\ \E ts \in lists :
         LET filtered == Filter(config, ts)
         IN  /\ tickers' = ts
             /\ symbols_to_scan' = IF ts = <<>> THEN <<>> ELSE filtered
             /\ pc' = IF ts = <<>> \/ filtered = <<>> THEN "sleep" ELSE "symbols"
             /\ previous_data' = IF ts = <<>> THEN [s \in Symbols |-> <<>>]
                                              ELSE previous_data
    /\ cycles' = cycles + 1
    /\ UNCHANGED <<config, alerts_sent, idx, alerts, didx, hist,
                   telegram_ui, ui, last, vs, seen, app>>

\* scan_symbols, lines 352-369: fetch the tickers (one of `lists`) and filter
\* them
ScanFetchOf(lists) ==
    /\ pc = "scan"
    /\ cycles < MaxCycles
    /\ \E ts \in lists :
         LET filtered == Filter(config, ts)
         IN  /\ tickers' = ts
             /\ symbols_to_scan' = IF ts = <<>> THEN <<>> ELSE filtered
             /\ pc' = IF ts = <<>> \/ filtered = <<>> THEN "sleep" ELSE "symbols"
    /\ cycles' = cycles + 1
    /\ UNCHANGED <<config, previous_data, alerts_sent, idx, alerts, didx, hist,
                   telegram_ui, ui, last, vs, seen, app>>

\* alerts.append (lines 379, 387, 392, 398) for the alerts `new` of a pass;
\* `earlier` is what alerted in the cycle before: nothing reads it
Aggregate(as, new, earlier) == as \o new

\* scan_symbols, lines 371-408: one iteration of the symbol loop, the answer
\* of get_kline_data one of `windows`
ScanSymbolOf(windows) ==
    /\ pc = "symbols"
    /\ \E klines \in windows :
         LET ticker == Capped(symbols_to_scan)[idx]
             r == ScanOne(config, previous_data, ticker, klines)
             last_one == idx = Len(Capped(symbols_to_scan))
             as == Aggregate(alerts, r.new, hist.earlier)
         IN  /\ alerts' = as
             /\ previous_data' = IF r.store
                                 THEN [previous_data EXCEPT ![ticker.symbol] = <<ticker>>]
                                 ELSE previous_data
             /\ hist' = [hist EXCEPT
                           !.done = IF r.end = "ok" THEN @ \cup {idx} ELSE @,
                           !.raised = IF r.end = "raised" THEN @ \cup {idx} ELSE @,
                           !.aborted = IF r.end = "aborted" THEN @ \cup {idx} ELSE @,
                           !.klines = Append(@, IF r.end = "aborted" THEN <<>> ELSE klines),
                           !.before = Append(@, IF r.end = "aborted" THEN <<>>
                                                ELSE previous_data[ticker.symbol]),
                           !.origin = @ \o [i \in 1..(Len(as) - Len(alerts)) |-> idx]]
             /\ pc' = IF r.end = "aborted" THEN AfterScan(Escapes(r.end))
                      ELSE IF last_one THEN AfterSymbols(as)
                      ELSE NextSymbol(as)
    /\ idx' = idx + 1
    /\ UNCHANGED <<config, alerts_sent, tickers, symbols_to_scan, didx, cycles,
                   telegram_ui, ui, last, vs, seen, app>>

ScanSymbol == ScanSymbolOf(KlineInputs)

\* TelegramUI.send_alert_to_ui_users: the users a message is sent to
send_alert_to_ui_users(u) == IF ~u.application THEN {} ELSE u.authorized_users

\* the users of a set in the order the loop of line 1048 visits them
RECURSIVE InTurn(_)
InTurn(S) == IF S = {} THEN <<>> ELSE <<SetMin(S)>> \o InTurn(S \ {SetMin(S)})

\* the send loop with a notice of the failure sent to the broadcast chat
\* after a delivery to it has failed
SendAlertOf_ReportsFailure(losses) ==
    /\ pc = "send"
    /\ \E success \in BOOLEAN, lost \in losses :
         LET to_users == IF telegram_ui = "None" THEN {}
                         ELSE send_alert_to_ui_users(ui)
             turn == InTurn(to_users)
         IN  /\ lost \subseteq to_users
             /\ alerts_sent' = IF success THEN alerts_sent + 1 ELSE alerts_sent
             /\ hist' = [hist EXCEPT
                  !.broadcast = @ \cup {didx},
                  !.userSends = @ \cup {<<didx, u>> : u \in to_users},
                  !.sent = @ \o <<Message(didx, Chat, success)>>
                             \o (IF success THEN <<>> ELSE <<Message(0, Chat, TRUE)>>)
                             \o [k \in DOMAIN turn |->
                                    Message(didx, turn[k], turn[k] \notin lost)]
                             \o <<Delay(didx)>>]
    /\ didx' = didx + 1
    /\ pc' = IF didx = Len(alerts) THEN "sleep" ELSE "send"
    /\ UNCHANGED <<config, previous_data, tickers, symbols_to_scan, idx, alerts,
                   cycles, telegram_ui, ui, last, vs, seen, app>>

\* the send loop left at the first delivery that fails
SendAlertOf_StopsOnFailure(losses) ==
    /\ pc = "send"
    /\ \E success \in BOOLEAN, lost \in losses :
         LET to_users == IF telegram_ui = "None" \/ ~success THEN {}
                         ELSE send_alert_to_ui_users(ui)
             turn == InTurn(to_users)
             reached == {k \in DOMAIN turn : \A j \in 1..(k - 1) : turn[j] \notin lost}
             failed == ~success \/ lost # {}
         IN  /\ lost \subseteq to_users
             /\ alerts_sent' = IF success THEN alerts_sent + 1 ELSE alerts_sent
             /\ hist' = [hist EXCEPT
                  !.broadcast = @ \cup {didx},
                  !.userSends = @ \cup {<<didx, turn[k]>> : k \in reached},
                  !.sent = @ \o <<Message(didx, Chat, success)>>
                             \o [k \in reached |->
                                    Message(didx, turn[k], turn[k] \notin lost)]
                             \o <<Delay(didx)>>]
             /\ pc' = IF didx = Len(alerts) \/ failed THEN "sleep" ELSE "send"
    /\ didx' = didx + 1
    /\ UNCHANGED <<config, previous_data, tickers, symbols_to_scan, idx, alerts,
                   cycles, telegram_ui, ui, last, vs, seen, app>>

\* scan_symbols, lines 411-433: one iteration of the send loop.  `success` is
\* the answer of send_telegram_message (False when the post fails or raises,
\* lines 56-62); `lost`, one of `losses`, are the users for whom send_message
\* raises, caught user by user at line 1055.
SendAlertOf(losses) ==
    /\ pc = "send"
    /\ \E success \in BOOLEAN, lost \in losses :
         LET to_users == IF telegram_ui = "None" THEN {}
                         ELSE send_alert_to_ui_users(ui)
             turn == InTurn(to_users)
         IN  /\ lost \subseteq to_users
             /\ alerts_sent' = IF success THEN alerts_sent + 1 ELSE alerts_sent
             /\ hist' = [hist EXCEPT
                  !.broadcast = @ \cup {didx},
                  !.userSends = @ \cup {<<didx, u>> : u \in to_users},
                  !.watching = @ \cup {<<didx, u>> : u \in
                                   {w \in Users : InList(alerts[didx].symbol,
                                                         ui.watchlist[w])}},
                  !.sent = @ \o <<Message(didx, Chat, success)>>
                             \o [k \in DOMAIN turn |->
                                    Message(didx, turn[k], turn[k] \notin lost)]
                             \o <<Delay(didx)>>]
    /\ didx' = didx + 1
    /\ pc' = IF didx = Len(alerts) THEN "sleep" ELSE "send"
    /\ UNCHANGED <<config, previous_data, tickers, symbols_to_scan, idx, alerts,
                   cycles, telegram_ui, ui, last, vs, seen, app>>

\* the send loop when every delivery to a user succeeds
SendAlert == SendAlertOf({{}})

ScanFetch == ScanFetchOf(TickerLists)

\* the sleep with a store pruned of the symbols the cycle did not fetch
Sleep_Pruning ==
    /\ pc \in {"sleep", "backoff"}
    /\ pc' = "scan"
    /\ tickers' = <<>>
    /\ symbols_to_scan' = <<>>
    /\ idx' = 1
    /\ alerts' = <<>>
    /\ didx' = 1
    /\ previous_data' =
          [s \in Symbols |->
              IF \E i \in DOMAIN tickers : "symbol" \in tickers[i].has /\ tickers[i].symbol = s
              THEN previous_data[s] ELSE <<>>]
    /\ hist' = [NoHist EXCEPT
                  !.earlier = {<<alerts[i].symbol, alerts[i].type>> : i \in DOMAIN alerts},
                  !.pre = previous_data',
                  !.startup = hist.startup,
                  !.delivered = hist.delivered + Succeeded(hist.sent),
                  !.prior = IF tickers = <<>> THEN "empty"
                            ELSE IF hist.aborted # {} THEN "aborted"
                            ELSE IF hist.raised # {} THEN "raised"
                            ELSE "done"]
    /\ UNCHANGED <<config, alerts_sent, cycles, telegram_ui, ui, last, vs, seen, app>>

\* run, lines 483 and 490: scan_symbols has returned (its locals are gone);
\* the sleep between two cycles
Sleep ==
    /\ pc \in {"sleep", "backoff"}
    /\ pc' = "scan"
    /\ tickers' = <<>>
    /\ symbols_to_scan' = <<>>
    /\ idx' = 1
    /\ alerts' = <<>>
    /\ didx' = 1
    /\ hist' = [NoHist EXCEPT
                  !.earlier = {<<alerts[i].symbol, alerts[i].type>> : i \in DOMAIN alerts},
                  !.pre = previous_data,
                  !.startup = hist.startup,
                  !.delivered = hist.delivered + Succeeded(hist.sent),
                  !.prior = IF tickers = <<>> THEN "empty"
                            ELSE IF hist.aborted # {} THEN "aborted"
                            ELSE IF hist.raised # {} THEN "raised"
                            ELSE "done"]
    /\ UNCHANGED <<config, previous_data, alerts_sent, cycles, telegram_ui, ui,
                   last, vs, seen, app>>

----------------------------------------------------------------------------
(* telegram_ui.py.  A callback's data is a sequence of tokens: the fixed
   prefixes "watchlist_" and "remove_" are one token each, so that
   startswith and the equality tests of handle_callback are computed.      *)

UiInit ==
    [application |-> TRUE,
     authorized_users |-> {},
     user_sessions |-> [u \in Users |-> "None"],
     watchlist |-> [u \in Users |-> <<>>]]

\* list.remove(x): the first occurrence goes
RECURSIVE ListRemove(_, _)
ListRemove(l, x) ==
    IF l = <<>> THEN <<>>
    ELSE IF Head(l) = x THEN Tail(l)
    ELSE <<Head(l)>> \o ListRemove(Tail(l), x)

ASS == <<"A", "S", "S">>

\* the text messages of the model: "btc", " BTC ", "ab", " " and "a" followed
\* by a sharp s (two characters that upper() makes the three of ASS)
TextInputs ==
    {<<"b", "t", "c">>, <<" ">> \o BTC \o <<" ">>, <<"a", "b">>, <<" ">>,
     <<"a", "sz">>}

\* the menus of handle_callback that only read (dashboard, status, alerts,
\* symbols, settings, performance, market, top_movers, help)
ViewMenus == {<<"dashboard">>, <<"status">>}

RemoveButton(symbol) == <<"remove_">> \o symbol

\* the callback data of the model; remove_<symbol> is the data of a button of
\* the removal menu (line 715)
CallbackInputs ==
    ViewMenus
    \cup {<<"watchlist">>, <<"watchlist_", "add">>, <<"watchlist_", "remove">>,
          <<"watchlist_", "stats">>}
    \cup {RemoveButton(s) : s \in {BTC, ASS}}

\* what a handler leaves: the instance and the answer it chose
Outcome(u, answer) == [ui |-> u, answer |-> answer]

\* TelegramUI.cmd_start: the user is authorized, then the menu is sent
cmd_start(u, user_id) ==
    Outcome([u EXCEPT !.authorized_users = @ \cup {user_id}], "main_menu")

\* TelegramUI.handle_watchlist_action; `edited` is whether edit_message_text
\* returns (it raises otherwise)
handle_watchlist_action(u, user_id, action, edited) ==
    IF action = <<"watchlist_", "add">>
    THEN Outcome(IF edited THEN [u EXCEPT !.user_sessions[user_id] = "adding_symbol"]
                           ELSE u, "send_symbol")
    ELSE IF action = <<"watchlist_", "remove">>
    THEN Outcome(u, IF u.watchlist[user_id] # <<>> THEN "removal_menu"
                                                   ELSE "watchlist_empty")
    ELSE IF StartsWith(action, <<"remove_">>)
    THEN LET symbol == Tail(action)
         IN  IF InList(symbol, u.watchlist[user_id])
             THEN Outcome([u EXCEPT !.watchlist[user_id] = ListRemove(@, symbol)],
                          "removed")
             ELSE Outcome(u, "not_found")
    ELSE Outcome(u, "not_implemented")

\* handle_callback with the input state of the user dropped by every button
\* but the one that asks for a symbol
handle_callback_forgets(u, user_id, data, raises) ==
    LET r == IF raises = 1 THEN Outcome(u, "none")
             ELSE IF data = <<"main_menu">> THEN cmd_start(u, user_id)
             ELSE IF data \in ViewMenus THEN Outcome(u, "view")
             ELSE IF data = <<"watchlist">> THEN Outcome(u, "watchlist")
             ELSE IF StartsWith(data, <<"watchlist_">>)
                  THEN handle_watchlist_action(u, user_id, data, raises # 2)
             ELSE Outcome(u, "unknown_action")
    IN  IF data = <<"watchlist_", "add">> \/ raises = 1 THEN r
        ELSE Outcome([r.ui EXCEPT !.user_sessions[user_id] = "None"], r.answer)

\* TelegramUI.handle_callback; `raises` is the ordinal of the Telegram call of
\* the handler that raises (0: none): 1 is query.answer(), 2 the edit of the
\* message
handle_callback(u, user_id, data, raises) ==
    IF raises = 1 THEN Outcome(u, "none")
    ELSE IF data = <<"main_menu">> THEN cmd_start(u, user_id)
    ELSE IF data \in ViewMenus THEN Outcome(u, "view")
    ELSE IF data = <<"watchlist">> THEN Outcome(u, "watchlist")
    ELSE IF StartsWith(data, <<"watchlist_">>)
         THEN handle_watchlist_action(u, user_id, data, raises # 2)
    ELSE Outcome(u, "unknown_action")

\* handle_message with the state reset to None after an invalid symbol too
handle_message_resets(u, user_id, text, replied) ==
    LET message_text == Strip(Upper(text))
    IN  IF u.user_sessions[user_id] # "adding_symbol" THEN Outcome(u, "received")
        ELSE IF message_text # <<>> /\ Len(message_text) > 2
        THEN LET present == InList(message_text, u.watchlist[user_id])
             IN  Outcome([u EXCEPT !.watchlist[user_id] =
                                      IF present THEN @ ELSE Append(@, message_text),
                                   !.user_sessions[user_id] =
                                      IF replied THEN "None" ELSE @],
                         IF present THEN "already_in_watchlist" ELSE "symbol_added")
        ELSE Outcome([u EXCEPT !.user_sessions[user_id] = "None"], "invalid_symbol")

\* handle_message without the test of line 775: the symbol is appended again
handle_message_appends(u, user_id, text, replied) ==
    LET message_text == Strip(Upper(text))
    IN  IF u.user_sessions[user_id] # "adding_symbol" THEN Outcome(u, "received")
        ELSE IF message_text # <<>> /\ Len(message_text) > 2
        THEN Outcome([u EXCEPT !.watchlist[user_id] = Append(@, message_text),
                               !.user_sessions[user_id] =
                                  IF replied THEN "None" ELSE @],
                     IF InList(message_text, u.watchlist[user_id])
                     THEN "already_in_watchlist" ELSE "symbol_added")
        ELSE Outcome(u, "invalid_symbol")

\* handle_message with one input state for all the users
handle_message_one_session(u, user_id, text, replied) ==
    LET message_text == Strip(Upper(text))
    IN  IF u.user_sessions[user_id] # "adding_symbol" THEN Outcome(u, "received")
        ELSE IF message_text # <<>> /\ Len(message_text) > 2
        THEN LET present == InList(message_text, u.watchlist[user_id])
                 added == IF present THEN u
                          ELSE [u EXCEPT !.watchlist[user_id] = Append(@, message_text)]
             IN  Outcome(IF replied
                         THEN [added EXCEPT !.user_sessions = [v \in Users |-> "None"]]
                         ELSE added,
                         IF present THEN "already_in_watchlist" ELSE "symbol_added")
        ELSE Outcome(u, "invalid_symbol")

\* handle_message without strip(): the text in upper case as it came
handle_message_untrimmed(u, user_id, text, replied) ==
    LET message_text == Upper(text)
    IN  IF u.user_sessions[user_id] # "adding_symbol" THEN Outcome(u, "received")
        ELSE IF message_text # <<>> /\ Len(message_text) > 2
        THEN LET present == InList(message_text, u.watchlist[user_id])
             IN  Outcome([u EXCEPT !.watchlist[user_id] =
                                      IF present THEN @ ELSE Append(@, message_text),
                                   !.user_sessions[user_id] =
                                      IF replied THEN "None" ELSE @],
                         IF present THEN "already_in_watchlist" ELSE "symbol_added")
        ELSE Outcome(u, "invalid_symbol")

\* TelegramUI.handle_message; `replied` is whether reply_text returns (it
\* raises otherwise)
handle_message(u, user_id, text, replied) ==
    LET message_text == Strip(Upper(text))
        user_state == u.user_sessions[user_id]
    IN  IF user_state = "adding_symbol"
        THEN IF message_text # <<>> /\ Len(message_text) > 2
             THEN LET present == InList(message_text, u.watchlist[user_id])
                      added == IF present THEN u
                               ELSE [u EXCEPT !.watchlist[user_id] =
                                                  Append(@, message_text)]
                  IN  Outcome(IF replied
                              THEN [added EXCEPT !.user_sessions[user_id] = "None"]
                              ELSE added,
                              IF present THEN "already_in_watchlist" ELSE "symbol_added")
             ELSE Outcome(u, "invalid_symbol")
        ELSE Outcome(u, "received")

\* the last UI event: the handler, its user and input, the answer it chose,
\* and the instance before it
Event(op, user, input, answer, before) ==
    [op |-> op, user |-> user, input |-> input, answer |-> answer, before |-> before]

NoLast == Event("none", 0, <<>>, "none", UiInit)

\* a /start command of a user
CmdStart ==
    /\ \E user_id \in Users :
         LET r == cmd_start(ui, user_id)
         IN  /\ ui' = r.ui
             /\ last' = Event("cmd_start", user_id, <<>>, r.answer, ui)
    /\ UNCHANGED <<scanVars, telegram_ui, vs, seen, app>>

\* a button pressed by a user, its data one of `datas`
HandleCallbackOf(datas) ==
    /\ \E user_id \in Users, data \in datas, raises \in 0..2 :
         LET r == handle_callback(ui, user_id, data, raises)
         IN  /\ ui' = r.ui
             /\ last' = Event("handle_callback", user_id, data, r.answer, ui)
    /\ UNCHANGED <<scanVars, telegram_ui, vs, seen, app>>

\* a text message of a user, one of `texts`
HandleMessageOf(texts) ==
    /\ \E user_id \in Users, text \in texts, replied \in BOOLEAN :
         LET r == handle_message(ui, user_id, text, replied)
         IN  /\ ui' = r.ui
             /\ last' = Event("handle_message", user_id, text, r.answer, ui)
    /\ UNCHANGED <<scanVars, telegram_ui, vs, seen, app>>

HandleCallback == HandleCallbackOf(CallbackInputs)
HandleMessage == HandleMessageOf(TextInputs)

----------------------------------------------------------------------------
\* no call of the volume analysis observed
NoVs == [ticker |-> Ticker({}, <<>>, Num(0), Num(0)), result |-> <<>>,
         called |-> FALSE]

\* app.py after start_scanner (lines 27-36, 370-376): scanner_status as it is
\* initialised, one scanner thread, whose scanner the global `scanner` is.
\* The variables of the scanner hold the state of the thread `running`, the
\* one that takes the next step; `parked` holds the state of the others.
NoApp ==
    [scanner_status |-> [status |-> "starting", alerts_sent |-> 0],
     threads |-> 1,
     running |-> 1,
     scanner |-> 1,
     parked |-> <<>>]

\* the state after construction, with the module global telegram_ui as the
\* deployment leaves it
InitOf(configs, globals) ==
    /\ config \in configs
    /\ previous_data = [s \in Symbols |-> <<>>]
    /\ alerts_sent = 0
    /\ pc = "start"
    /\ tickers = <<>>
    /\ symbols_to_scan = <<>>
    /\ idx = 1
    /\ alerts = <<>>
    /\ didx = 1
    /\ cycles = 0
    /\ hist = NoHist
    /\ telegram_ui \in globals
    /\ ui = UiInit
    /\ last = NoLast
    /\ seen = <<>>
    /\ app = NoApp
    /\ vs = NoVs

InitWith(globals) == InitOf(Configs, globals)

\* app.py builds its TelegramUI in run_telegram_ui (line 74) and leaves the
\* module global of telegram_ui.py None
Init == InitWith({"None"})

\* The scanner alone
Next ==
    \/ RunStart
    \/ ScanFetch
    \/ ScanSymbol
    \/ SendAlert
    \/ Sleep

Spec == Init /\ [][Next]_vars

\* The subscribers' watchlists and input states alone (no /start: the set of
\* authorized users plays no part in them)
NextUI ==
    \/ HandleCallback
    \/ HandleMessage

InitUI == Init /\ config = DefaultConfig

SpecUI == InitUI /\ [][NextUI]_vars

\* The subscribers with the main menu: /start, the buttons of the model and
\* the Main Menu button, and text messages
MenuInputs == CallbackInputs \cup {<<"main_menu">>}

MenuTexts == {<<"b", "t", "c">>, <<"a", "b">>}

HandleCallbackMenu == HandleCallbackOf(MenuInputs)
HandleMessageMenu == HandleMessageOf(MenuTexts)

NextMenu ==
    \/ CmdStart
    \/ HandleCallbackMenu
    \/ HandleMessageMenu

SpecMenu == InitUI /\ [][NextMenu]_vars

\* The scanner and the subscribers together.  app.py builds its TelegramUI
\* in run_telegram_ui and leaves the module global None; a program started
\* through start_telegram_ui (telegram_ui.py, line 1071) has the instance
\* there.
AppTickerLists ==
    {<<Ticker(AllKeys, BTC, Num(1), Num(1000))>>,
     <<Ticker(AllKeys, BTC, Num(3), Num(1000))>>}

\* candle windows: none, and the one whose newest close is 5% up
AppKlines == {w \in KlineInputs : w = <<>> \/ w[1] # FlatKline}

ScanFetchApp == ScanFetchOf(AppTickerLists)
ScanSymbolApp == ScanSymbolOf(AppKlines)
HandleCallbackApp == HandleCallbackOf({<<"watchlist_", "add">>})
HandleMessageApp == HandleMessageOf({<<"b", "t", "c">>})

NextApp ==
    \/ RunStart
    \/ ScanFetchApp
    \/ ScanSymbolApp
    \/ SendAlert
    \/ Sleep
    \/ CmdStart
    \/ HandleCallbackApp
    \/ HandleMessageApp

InitApp == InitWith({"None", "instance"}) /\ config = DefaultConfig

SpecApp == InitApp /\ [][NextApp]_vars

\* The volume analysis of one ticker against the store.  The store holds
\* tickers that passed should_scan_symbol, and so does the loop; with
\* MIN_VOLUME_24H below zero these can have a volume that is zero, negative
\* or missing.
VolumeConfigs == {[DefaultConfig EXCEPT !.MIN_VOLUME_24H = m] : m \in {-MaxVolume, 1}}

VolumeTickers ==
    {Ticker(AllKeys, BTC, Num(v), Num(1000)) : v \in (-MaxVolume)..MaxVolume}
    \cup {Ticker(AllKeys \ {"volume24h"}, BTC, Num(0), Num(1000))}

InitVolume ==
    /\ config \in VolumeConfigs
    /\ \E stored \in {<<>>} \cup {<<t>> : t \in VolumeTickers} :
         /\ stored # <<>> => should_scan_symbol(config, stored[1])
         /\ previous_data = [s \in Symbols |-> IF s = BTC THEN stored ELSE <<>>]
    /\ \E t \in VolumeTickers :
         /\ should_scan_symbol(config, t)
         /\ vs = [ticker |-> t, result |-> <<>>, called |-> FALSE]
    /\ alerts_sent = 0
    /\ pc = "symbols"
    /\ tickers = <<>>
    /\ symbols_to_scan = <<>>
    /\ idx = 1
    /\ alerts = <<>>
    /\ didx = 1
    /\ cycles = 0
    /\ hist = NoHist
    /\ telegram_ui = "None"
    /\ ui = UiInit
    /\ last = NoLast
    /\ seen = <<>>
    /\ app = NoApp

\* scan_symbols, lines 376-379, for the ticker vs.ticker
VolumeStep ==
    /\ ~vs.called
    /\ vs' = [vs EXCEPT !.result = VolumeCheck(config, previous_data, vs.ticker),
                        !.called = TRUE]
    /\ UNCHANGED <<scanVars, uiVars, seen, app>>

NextVolume == VolumeStep

SpecVolume == InitVolume /\ [][NextVolume]_vars

\* One pass of the symbol loop over a ticker that passed the filter, with
\* candle windows of every length around the detectors' requirements and
\* prices around the breakout buffers.
DetectConfigs ==
    {[DefaultConfig EXCEPT !.PRICE_PUMP_THRESHOLD = t[1],
                           !.PRICE_DUMP_THRESHOLD = t[2],
                           !.BREAKOUT_LOOKBACK_PERIODS = n] :
        t \in {<<5, -5>>, <<-5, 5>>}, n \in {3, 12}}

DetectTickers ==
    {Ticker(AllKeys, BTC, Num(1), Num(price)) : price \in {998, 999, 1000, 1001, 1002}}

\* a window of n candles, newest first: `newest`, then `rest`, the fifth `fifth`
Window(n, newest, fifth, rest) ==
    [i \in 1..n |-> IF i = 1 THEN newest ELSE IF i = 5 THEN fifth ELSE rest]

\* a flat candle whose close is "0"
ZeroClose == Kline(Num(1000), Num(1000), Num(0))

DetectKlines ==
    {Window(n, newest, fifth, rest) :
        n \in {0, 2, 4, 7, 10, 12},
        newest \in {FlatKline,
                    Kline(Num(1050), Num(1000), Num(1050)),
                    Kline(Num(1100), Num(1000), Num(1000)),
                    Kline(Num(1099), Num(1000), Num(1000)),
                    Kline(Num(1000), Num(950), Num(950)),
                    Kline(Num(1000), Num(951), Num(951))},
        fifth \in {FlatKline, ZeroClose},
        rest \in {FlatKline, ZeroClose, Kline(Bad, Num(1000), Num(1000))}}

InitDetect ==
    /\ config \in DetectConfigs
    /\ \E t \in DetectTickers :
         /\ should_scan_symbol(config, t)
         /\ tickers = <<t>>
         /\ symbols_to_scan = <<t>>
    /\ previous_data = [s \in Symbols |-> <<>>]
    /\ alerts_sent = 0
    /\ pc = "symbols"
    /\ idx = 1
    /\ alerts = <<>>
    /\ didx = 1
    /\ cycles = 1
    /\ hist = NoHist
    /\ telegram_ui = "None"
    /\ ui = UiInit
    /\ last = NoLast
    /\ seen = <<>>
    /\ app = NoApp
    /\ vs = NoVs

ScanSymbolDetect == ScanSymbolOf(DetectKlines)

NextDetect == ScanSymbolDetect

SpecDetect == InitDetect /\ [][NextDetect]_vars

\* Cycles over one or two symbols whose newest candle can have a range of
\* 10%, the older candles well-formed or with a close of "0".
RepeatLists ==
    {<<Ticker(AllKeys, BTC, Num(1), Num(1000))>>,
     <<Ticker(AllKeys, ETH, Num(1), Num(1000)), Ticker(AllKeys, BTC, Num(1), Num(1000))>>}

RepeatKlines ==
    {Window(10, Kline(Num(1100), Num(1000), Num(1000)), FlatKline, rest) :
        rest \in {FlatKline, ZeroClose}}
    \cup {Window(10, FlatKline, FlatKline, FlatKline), <<>>}

ScanFetchRepeat == ScanFetchOf(RepeatLists)
ScanSymbolRepeat == ScanSymbolOf(RepeatKlines)

NextRepeat ==
    \/ RunStart
    \/ ScanFetchRepeat
    \/ ScanSymbolRepeat
    \/ SendAlert
    \/ Sleep

SpecRepeat == InitUI /\ [][NextRepeat]_vars

\* The filter alone: tickers whose volume and price lie on, inside and
\* outside the bounds, or are text that is no number, or "nan".
FilterConfig ==
    [DefaultConfig EXCEPT !.MIN_VOLUME_24H = 2, !.MIN_PRICE = 2, !.MAX_PRICE = 5]

FilterTickers ==
    {Ticker(AllKeys, BTC, volume, price) :
        volume \in {Num(1), Num(2), Bad, NaN},
        price \in {Num(1), Num(2), Num(5), Num(6), Bad}}

FilterLists == UNION {[1..n -> FilterTickers] : n \in 0..2}

InitFilter ==
    /\ config = FilterConfig
    /\ previous_data = [s \in Symbols |-> <<>>]
    /\ alerts_sent = 0
    /\ pc = "scan"
    /\ tickers = <<>>
    /\ symbols_to_scan = <<>>
    /\ idx = 1
    /\ alerts = <<>>
    /\ didx = 1
    /\ cycles = 0
    /\ hist = NoHist
    /\ telegram_ui = "None"
    /\ ui = UiInit
    /\ last = NoLast
    /\ seen = <<>>
    /\ app = NoApp
    /\ vs = NoVs

ScanFetchFilter == ScanFetchOf(FilterLists)

NextFilter == ScanFetchFilter

SpecFilter == InitFilter /\ [][NextFilter]_vars

\* The loop of run over cycles of every kind: nothing fetched, a symbol
\* processed, a ticker without symbol (the cycle raises), a ticker without
\* lastPrice (its pass raises).
RunLists ==
    {<<>>,
     <<Ticker(AllKeys, BTC, Num(1), Num(1000))>>,
     <<Ticker(AllKeys, BTC, Num(3), Num(1000))>>,
     <<Ticker(AllKeys \ {"symbol"}, <<>>, Num(1), Num(1000))>>,
     <<Ticker(AllKeys \ {"lastPrice"}, ETH, Num(1), Num(0)),
       Ticker(AllKeys, BTC, Num(3), Num(1000))>>}

ScanFetchRun == ScanFetchOf(RunLists)

\* The scanner left to itself.  It is one coroutine; each of its steps ends
\* (the posts and the exchange calls have timeouts, the sleeps are finite),
\* so a step that can be taken is taken.
NextLive ==
    \/ RunStart
    \/ ScanFetchRun
    \/ ScanSymbol
    \/ SendAlert
    \/ Sleep

SpecLive == Init /\ [][NextLive]_vars /\ WF_vars(NextLive)

\* the settings of a start: the bot token and the chat id present or not
\* (MIN_PRICE 0 lets the ticker without lastPrice through the filter)
RunConfigs ==
    {[DefaultConfig EXCEPT !.TELEGRAM_BOT_TOKEN = token, !.TELEGRAM_CHAT_ID = chat,
                           !.MIN_PRICE = 0] :
        token \in BOOLEAN, chat \in BOOLEAN}

InitRun == InitOf(RunConfigs, {"None"})

\* A stop signal reaches the scanner inside the loop of run.  It arrives as
\* KeyboardInterrupt, or as the cancellation asyncio makes of it; neither is
\* an Exception, so the handlers of lines 406, 432 and 437 let it pass, and
\* it leaves the loop at lines 485-487 or unwinds run.  What the cycle had
\* still to do stays undone.
Stop ==
    /\ pc \in {"scan", "symbols", "send", "sleep", "backoff"}
    /\ pc' = "stopped"
    /\ UNCHANGED <<config, previous_data, alerts_sent, tickers, symbols_to_scan,
                   idx, alerts, didx, cycles, hist, telegram_ui, ui, last, vs, seen, app>>

\* The scanner from its start, with a stop signal
NextRun ==
    \/ RunStart
    \/ ScanFetchRun
    \/ ScanSymbol
    \/ SendAlert
    \/ Sleep
    \/ Stop

SpecRun == InitRun /\ [][NextRun]_vars

\* The send loop with subscribers: the users of /start, deliveries that
\* fail for the chat and for any of the users, under both wirings of the
\* module global.
SendAlertLossy == SendAlertOf(SUBSET Users)

NextSend ==
    \/ RunStart
    \/ ScanFetchApp
    \/ ScanSymbol
    \/ SendAlertLossy
    \/ Sleep
    \/ CmdStart

SpecSend == InitApp /\ [][NextSend]_vars

\* len(scanner.previous_data)
Tracked(pd) == Cardinality({s \in Symbols : pd[s] # <<>>})

\* what a call of an accessor of app.py found in scanner.previous_data: the
\* entries (api_symbols only; the store is empty for status), their number,
\* and the cycle and position of the scanner at the time
Reading(op, pd) ==
    [op |-> op,
     store |-> IF op = "api_symbols" THEN pd ELSE [s \in Symbols |-> <<>>],
     tracked |-> Tracked(pd),
     cycle |-> cycles,
     at |-> pc]

\* app.py, api_symbols (lines 291-322): a request served by a thread of the
\* web server reads the entries of scanner.previous_data, the scanner
\* thread being wherever it is
ApiSymbols ==
    /\ pc # "start"
    /\ seen' = <<Reading("api_symbols", previous_data)>>
    /\ UNCHANGED <<scanVars, uiVars, vs, app>>

\* app.py, status (lines 169-181): the same for len(scanner.previous_data)
Status ==
    /\ pc # "start"
    /\ seen' = <<Reading("status", previous_data)>>
    /\ UNCHANGED <<scanVars, uiVars, vs, app>>

\* The scanner thread and the accessors of the web server
StatusLists ==
    {<<Ticker(AllKeys, ETH, Num(1), Num(1000)), Ticker(AllKeys, BTC, Num(1), Num(1000))>>,
     <<Ticker(AllKeys, BTC, Num(3), Num(1000))>>}

ScanFetchStatus == ScanFetchOf(StatusLists)

NextStatus ==
    \/ RunStart
    \/ ScanFetchStatus
    \/ ScanSymbol
    \/ SendAlert
    \/ Sleep
    \/ ApiSymbols
    \/ Status

SpecStatus == InitUI /\ [][NextStatus]_vars

\* The scanner threads of app.py.  MaxThreads bounds the threads started.
MaxThreads == 2

\* the state of the scanner thread that takes the next step: its
\* BybitScanner and its position in run
ThreadState ==
    [previous_data |-> previous_data, alerts_sent |-> alerts_sent, pc |-> pc,
     tickers |-> tickers, symbols_to_scan |-> symbols_to_scan, idx |-> idx,
     alerts |-> alerts, didx |-> didx, cycles |-> cycles, hist |-> hist]

\* the thread whose state is `t` takes the next steps
Resume(t) ==
    /\ previous_data' = t.previous_data
    /\ alerts_sent' = t.alerts_sent
    /\ pc' = t.pc
    /\ tickers' = t.tickers
    /\ symbols_to_scan' = t.symbols_to_scan
    /\ idx' = t.idx
    /\ alerts' = t.alerts
    /\ didx' = t.didx
    /\ cycles' = t.cycles
    /\ hist' = t.hist

\* run_scanner, lines 43-44, over BybitScanner.__init__: a scanner with an
\* empty store and no alert sent, before run
NewScanner ==
    [previous_data |-> [s \in Symbols |-> <<>>], alerts_sent |-> 0, pc |-> "start",
     tickers |-> <<>>, symbols_to_scan |-> <<>>, idx |-> 1, alerts |-> <<>>,
     didx |-> 1, cycles |-> 0, hist |-> NoHist]

\* app.py, restart_scanner (lines 255-289) with the start of run_scanner
\* (lines 43-44): the running thread is left as it is (lines 262-264 only
\* log), scanner_status is replaced, a new thread is started, and in it the
\* global `scanner` is bound to a new BybitScanner
RestartScanner ==
    /\ app.threads < MaxThreads
    /\ app' = [app EXCEPT
                 !.scanner_status = [status |-> "running", alerts_sent |-> 0],
                 !.threads = @ + 1,
                 !.running = app.threads + 1,
                 !.scanner = app.threads + 1,
                 !.parked = Append(@, [id |-> app.running, state |-> ThreadState])]
    /\ Resume(NewScanner)
    /\ UNCHANGED <<config, telegram_ui, ui, last, vs, seen>>

\* the scheduler lets another scanner thread take the next steps
Switch ==
    /\ \E k \in DOMAIN app.parked :
         /\ Resume(app.parked[k].state)
         /\ app' = [app EXCEPT
                      !.running = app.parked[k].id,
                      !.parked = [@ EXCEPT ![k] = [id |-> app.running,
                                                   state |-> ThreadState]]]
    /\ UNCHANGED <<config, telegram_ui, ui, last, vs, seen>>

\* the scanner threads there are, each with its state
Threads ==
    {[id |-> app.running, state |-> ThreadState]}
       \cup {app.parked[k] : k \in DOMAIN app.parked}

\* the BybitScanner the global `scanner` of app.py is bound to
TheScanner == (CHOOSE t \in Threads : t.id = app.scanner).state

\* status, line 179, and api_alerts, line 333: scanner.alerts_sent
StatusAlertsSent == TheScanner.alerts_sent

\* home, line 120: scanner_status.get('alerts_sent', 0)
HomeAlertsSent == app.scanner_status.alerts_sent

\* the threads that are inside the loop of run
Looping == {t \in Threads : t.state.pc \in {"scan", "symbols", "send", "sleep", "backoff"}}

RestartLists == {<<Ticker(AllKeys, BTC, Num(3), Num(1000))>>}

ScanFetchRestart == ScanFetchOf(RestartLists)

\* The scanner threads under restart requests
NextRestart ==
    \/ RunStart
    \/ ScanFetchRestart
    \/ ScanSymbolApp
    \/ SendAlert
    \/ Sleep
    \/ RestartScanner
    \/ Switch

InitRestart == InitOf({DefaultConfig}, {"None"})

SpecRestart == InitRestart /\ [][NextRestart]_vars

----------------------------------------------------------------------------
(* The subscriber registry: C5 - C8 *)

\* the last event is a text message of a user who was in state adding_symbol
TextWhileAdding ==
    /\ last.op = "handle_message"
    /\ last.before.user_sessions[last.user] = "adding_symbol"

\* the symbol candidate of the last text message
Candidate == Strip(Upper(last.input))

\* the number of times x is in list l
Count(x, l) == Cardinality({i \in DOMAIN l : l[i] = x})

(* C5, as claimed: after invalid text (empty, or of length <= 2 after
   trimming) sent in state AwaitingSymbol the input is rejected, the
   watchlist is unchanged and the state of the subscriber is Idle. *)
C5_ResetToIdle ==
    (TextWhileAdding /\ Len(Strip(last.input)) <= 2 /\ Len(Candidate) <= 2)
        => /\ last.answer = "invalid_symbol"
           /\ ui.watchlist = last.before.watchlist
           /\ ui.user_sessions[last.user] = "None"

(* C5, amended: after text whose upper-cased, trimmed form is empty or of
   length <= 2, sent in state AwaitingSymbol, the input is rejected and
   nothing changes: the watchlist is unchanged and the subscriber stays in
   AwaitingSymbol (the next text is again taken as a symbol candidate). *)
C5_InvalidKeepsAwaiting ==
    (TextWhileAdding /\ Len(Candidate) <= 2)
        => /\ last.answer = "invalid_symbol"
           /\ ui = last.before
           /\ ui.user_sessions[last.user] = "adding_symbol"

C5_Witness ==
    /\ TextWhileAdding
    /\ Len(Candidate) <= 2
    /\ last.answer = "invalid_symbol"
    /\ ui.watchlist[last.user] # <<>>

(* C6, as claimed: after the remove action of the removal menu for symbol s
   (the handler having answered the callback) the watchlist of the
   subscriber is the one before without s, and holds s no more. *)
C6_RemoveButtonRemoves ==
    (/\ last.op = "handle_callback"
     /\ StartsWith(last.input, <<"remove_">>)
     /\ last.answer # "none")
        => /\ ~InList(Tail(last.input), ui.watchlist[last.user])
           /\ ui.watchlist[last.user] =
                 ListRemove(last.before.watchlist[last.user], Tail(last.input))

(* C7, as claimed: a text message inserts its trimmed, upper-cased form into
   the watchlist of the subscriber iff the subscriber is in AwaitingSymbol
   and that form is longer than 2; after such valid text the state is Idle;
   text received while Idle changes no watchlist and no state. *)
C7_TextStateMachine ==
    last.op = "handle_message" =>
        LET user_id == last.user
            awaiting == last.before.user_sessions[user_id] = "adding_symbol"
            valid == awaiting /\ Len(Candidate) > 2
        IN  /\ valid => /\ InList(Candidate, ui.watchlist[user_id])
                        /\ ui.user_sessions[user_id] = "None"
            /\ ~valid => ui.watchlist = last.before.watchlist
            /\ ~awaiting => ui = last.before

(* C8: a valid symbol sent in AwaitingSymbol that the watchlist already
   holds leaves every watchlist unchanged and is answered as already
   present; after any accepted symbol the watchlist holds it exactly once
   (so adding it twice gives the watchlist of adding it once). *)
C8_AddIdempotent ==
    (TextWhileAdding /\ Len(Candidate) > 2)
        => /\ InList(Candidate, last.before.watchlist[last.user])
                => /\ ui.watchlist = last.before.watchlist
                   /\ last.answer = "already_in_watchlist"
           /\ Count(Candidate, ui.watchlist[last.user]) = 1
           /\ Len(ui.watchlist[last.user])
                 = Len(last.before.watchlist[last.user])
                   + (IF InList(Candidate, last.before.watchlist[last.user])
                      THEN 0 ELSE 1)

C8_Witness ==
    /\ TextWhileAdding
    /\ last.answer = "already_in_watchlist"
    /\ Len(ui.watchlist[last.user]) = 2

----------------------------------------------------------------------------
(* The scan cycle: C1 - C3 *)

\* scan_symbols has returned, or is past its symbol loop
CycleOver == pc = "sleep" /\ tickers # <<>>

\* the symbols processed in the cycle: the capped prefix of the filtered list
Eligible == Capped(symbols_to_scan)

(* C1, as claimed: after a cycle that received a non-empty snapshot set,
   every symbol of the filtered list has its State Store entry equal to the
   snapshot fetched in the cycle. *)
C1_EveryFilteredStored ==
    CycleOver =>
        \A i \in DOMAIN symbols_to_scan :
            "symbol" \in symbols_to_scan[i].has
                => previous_data[symbols_to_scan[i].symbol] = <<symbols_to_scan[i]>>

(* C1, amended: at any point of a cycle, for every snapshot among the first
   MaxSymbolsPerCycle of the filtered list whose processing has completed
   without raising, the State Store entry of its symbol equals that snapshot
   (the last such snapshot when the list names the symbol twice), whether or
   not an alert fired for it. *)
C1_ProcessedStored ==
    \A i \in hist.done :
        (\A j \in hist.done : j > i => Eligible[j].symbol # Eligible[i].symbol)
            => previous_data[Eligible[i].symbol] = <<Eligible[i]>>

\* a cycle is over in which a symbol was processed and stored without any
\* alert, another one alerted, and the filtered list was longer than the cap
C1_Witness ==
    /\ CycleOver
    /\ Len(symbols_to_scan) > MaxSymbolsPerCycle
    /\ hist.done = {1, 2}
    /\ Len(alerts) = 1
    /\ Eligible[1].symbol # Eligible[2].symbol

(* C2, as claimed: when the processing of one symbol of the capped list
   raises, every later symbol of the capped list is still processed in the
   cycle (and its State Store entry written unless it raises itself). *)
C2_LaterSymbolsProcessed ==
    CycleOver =>
        \A i \in hist.raised \cup hist.aborted :
            \A j \in (i + 1)..Len(Eligible) :
                j \in hist.done \cup hist.raised \cup hist.aborted

(* C3, as claimed: every alert appended to the aggregate of a cycle is passed
   to the dispatcher in that cycle: when the cycle is over a delivery to the
   broadcast chat has been attempted for each. *)
C3_EveryAlertDispatched ==
    CycleOver => \A i \in DOMAIN alerts : i \in hist.broadcast

----------------------------------------------------------------------------
(* Delivery: C4 *)

(* C4, as claimed: for each dispatched alert a delivery is attempted to the
   broadcast destination and to every subscriber whose watchlist contains the
   alert's symbol at dispatch time. *)
C4_WatchersReceive ==
    /\ \A p \in hist.watching : p[1] \in hist.broadcast
    /\ hist.watching \subseteq hist.userSends

----------------------------------------------------------------------------
(* The volume spike detector: C9, C10 *)

VsCurrent == Get(vs.ticker, "volume24h").v
VsStored == previous_data[BTC] # <<>>
VsPrevious == Get(previous_data[BTC][1], "volume24h").v

(* C9: for a symbol with a stored snapshot whose volume24h is above zero, a
   volume_spike alert is emitted iff (current - previous) / previous * 100
   >= VOLUME_SPIKE_THRESHOLD * 100, the comparison being inclusive. *)
C9_VolumeSpikeIff ==
    (vs.called /\ VsStored /\ VsPrevious > 0) =>
        (vs.result = <<Alert("volume_spike", BTC)>>
            <=> (VsCurrent - VsPrevious) * 100
                    >= config.VOLUME_SPIKE_THRESHOLD * 100 * VsPrevious)
        /\ (vs.result = <<>>
            <=> (VsCurrent - VsPrevious) * 100
                    < config.VOLUME_SPIKE_THRESHOLD * 100 * VsPrevious)

\* the alert is emitted for a change of exactly VOLUME_SPIKE_THRESHOLD * 100 %
C9_Witness ==
    /\ vs.called /\ VsStored /\ VsPrevious > 0
    /\ VsCurrent - VsPrevious = config.VOLUME_SPIKE_THRESHOLD * VsPrevious
    /\ vs.result # <<>>

(* C10, as claimed: the detector emits no alert whenever the symbol has no
   stored snapshot or the previous volume is not strictly positive (zero,
   negative or missing). *)
C10_NoAlertWithoutPositivePrevious ==
    (vs.called /\ (~VsStored \/ VsPrevious <= 0)) => vs.result = <<>>

----------------------------------------------------------------------------
(* The candle detectors: C11 - C14 *)

\* the passes of the cycle so far that got to fetch their candles
Passes == DOMAIN hist.klines \ hist.aborted

\* the types of the alerts that pass i appended
TypesOf(i) == {alerts[a].type : a \in {b \in DOMAIN alerts : hist.origin[b] = i}}

\* the closes of the newest and of the fifth-newest candle are numbers, the
\* latter not zero: pctChange is defined
ChangeDefined(k) ==
    /\ Len(k) >= 5
    /\ IsNum(k[1].close) /\ IsNum(k[5].close) /\ k[5].close.v # 0

\* pctChange >= t, pctChange <= t
ChangeGE(k, t) == PctGE(k[1].close.v - k[5].close.v, k[5].close.v, t)
ChangeLE(k, t) == PctLE(k[1].close.v - k[5].close.v, k[5].close.v, t)

(* C11: with at least 5 candles and pctChange = (newest close - fifth-newest
   close) / fifth-newest close * 100, a price_pump alert is emitted iff
   pctChange >= PRICE_PUMP_THRESHOLD, a price_dump alert iff pctChange is
   below PRICE_PUMP_THRESHOLD and <= PRICE_DUMP_THRESHOLD, and never both,
   whatever the two thresholds. *)
C11_PumpDump ==
    \A i \in Passes :
        LET k == hist.klines[i]
        IN  ChangeDefined(k) =>
              /\ "price_pump" \in TypesOf(i)
                    <=> ChangeGE(k, config.PRICE_PUMP_THRESHOLD)
              /\ "price_dump" \in TypesOf(i)
                    <=> /\ ~ChangeGE(k, config.PRICE_PUMP_THRESHOLD)
                        /\ ChangeLE(k, config.PRICE_DUMP_THRESHOLD)
              /\ ~("price_pump" \in TypesOf(i) /\ "price_dump" \in TypesOf(i))

\* a change of exactly PRICE_PUMP_THRESHOLD percent that is also under a
\* PRICE_DUMP_THRESHOLD above it gave a pump and no dump
C11_Witness ==
    \E i \in Passes :
        LET k == hist.klines[i]
        IN  /\ ChangeDefined(k)
            /\ (k[1].close.v - k[5].close.v) * 100
                  = config.PRICE_PUMP_THRESHOLD * k[5].close.v
            /\ ChangeLE(k, config.PRICE_DUMP_THRESHOLD)
            /\ TypesOf(i) \cap {"price_pump", "price_dump"} = {"price_pump"}

(* C12, as claimed: with at least 10 candles a volatility_spike alert is
   emitted iff the range of the newest candle, (high - low) / close * 100,
   is >= VOLATILITY_THRESHOLD, whatever the other nine candles are. *)
C12_VolatilityOfNewestOnly ==
    \A i \in Passes :
        LET k == hist.klines[i]
        IN  (/\ Len(k) >= 10
             /\ IsNum(k[1].high) /\ IsNum(k[1].low) /\ IsNum(k[1].close)
             /\ k[1].close.v # 0)
              => ("volatility_spike" \in TypesOf(i)
                    <=> PctGE(k[1].high.v - k[1].low.v, k[1].close.v,
                              config.VOLATILITY_THRESHOLD))

\* the highs and lows of the lookback window are numbers, and so is the price
LevelsDefined(i) ==
    LET k == hist.klines[i]
        n == config.BREAKOUT_LOOKBACK_PERIODS
    IN  /\ n > 0 /\ Len(k) >= n
        /\ \A j \in 1..n : IsNum(k[j].high) /\ IsNum(k[j].low)
        /\ "lastPrice" \in Eligible[i].has /\ IsNum(Eligible[i].lastPrice)

Resistance(i) ==
    SetMax({hist.klines[i][j].high.v : j \in 1..config.BREAKOUT_LOOKBACK_PERIODS})
Support(i) ==
    SetMin({hist.klines[i][j].low.v : j \in 1..config.BREAKOUT_LOOKBACK_PERIODS})

(* C13, as claimed: with at least lookback candles, resistance the highest
   high and support the lowest low of the lookback newest candles,
   breakout_up is emitted iff the price is above resistance * 1.001 and
   breakout_down iff it is below support * 0.999, both strictly (a price
   equal to the buffered level fires nothing), and never both. *)
C13_BreakoutStrict ==
    \A i \in Passes :
        LevelsDefined(i) =>
            /\ "breakout_up" \in TypesOf(i)
                  <=> Eligible[i].lastPrice.v * 1000 > Resistance(i) * 1001
            /\ "breakout_down" \in TypesOf(i)
                  <=> Eligible[i].lastPrice.v * 1000 < Support(i) * 999
            /\ ~("breakout_up" \in TypesOf(i) /\ "breakout_down" \in TypesOf(i))

(* C14: a detector whose window is too short (fewer than 5 candles for the
   price movement, fewer than 10 for the volatility, fewer than the lookback
   for the breakout, or none at all) emits nothing and raises nothing: the
   pass of a ticker with a price completes, the ticker is stored, and the
   detectors whose requirement is met emit as with any window. *)
C14_ShortWindowAbstains ==
    \A i \in Passes :
        LET k == hist.klines[i]
            n == config.BREAKOUT_LOOKBACK_PERIODS
            short == Len(k) < 5 \/ Len(k) < 10 \/ Len(k) < n
        IN  /\ Len(k) < 5 => TypesOf(i) \cap {"price_pump", "price_dump"} = {}
            /\ Len(k) < 10 => "volatility_spike" \notin TypesOf(i)
            /\ Len(k) < n => TypesOf(i) \cap {"breakout_up", "breakout_down"} = {}
            /\ (short /\ (k = <<>> \/ ("lastPrice" \in Eligible[i].has
                                        /\ Parses(Eligible[i].lastPrice))))
                  => /\ i \in hist.done
                     /\ previous_data[Eligible[i].symbol] = <<Eligible[i]>>
            /\ (short /\ ChangeDefined(k))
                  => ("price_pump" \in TypesOf(i)
                        <=> ChangeGE(k, config.PRICE_PUMP_THRESHOLD))
            /\ (short /\ Len(k) >= 10 /\ \A j \in 1..10 : KlineOk(k[j]))
                  => ("volatility_spike" \in TypesOf(i)
                        <=> PctGE(k[1].high.v - k[1].low.v, k[1].close.v,
                                  config.VOLATILITY_THRESHOLD))

\* a window of ten candles, shorter than the lookback: the volatility
\* alerted, the breakout did not, and the ticker was stored
C14_Witness ==
    \E i \in Passes :
        /\ Len(hist.klines[i]) = 10
        /\ config.BREAKOUT_LOOKBACK_PERIODS > 10
        /\ TypesOf(i) = {"volatility_spike"}
        /\ i \in hist.done
        /\ previous_data[Eligible[i].symbol] = <<Eligible[i]>>

----------------------------------------------------------------------------
(* The aggregate of a cycle: C15, C16 *)

Kinds == {"volume_spike", "price_pump", "price_dump", "volatility_spike",
          "breakout_up", "breakout_down"}

\* the place of a detector in the fixed order
Rank(type) ==
    CASE type = "volume_spike" -> 1
      [] type \in {"price_pump", "price_dump"} -> 2
      [] type = "volatility_spike" -> 3
      [] type \in {"breakout_up", "breakout_down"} -> 4

\* the condition of the volume spike detector for `ticker` against the store
\* entry `before`
VolumeHolds(ticker, before) ==
    /\ before # <<>>
    /\ IsNum(Get(ticker, "volume24h")) /\ IsNum(Get(before[1], "volume24h"))
    /\ Get(before[1], "volume24h").v > 0
    /\ (Get(ticker, "volume24h").v - Get(before[1], "volume24h").v) * 100
          >= config.VOLUME_SPIKE_THRESHOLD * 100 * Get(before[1], "volume24h").v

\* the condition of the detector of `kind` for pass i
Holds(kind, i) ==
    LET k == hist.klines[i]
    IN  CASE kind = "volume_spike" -> VolumeHolds(Eligible[i], hist.before[i])
          [] kind = "price_pump" ->
                ChangeDefined(k) /\ ChangeGE(k, config.PRICE_PUMP_THRESHOLD)
          [] kind = "price_dump" ->
                /\ ChangeDefined(k)
                /\ ~ChangeGE(k, config.PRICE_PUMP_THRESHOLD)
                /\ ChangeLE(k, config.PRICE_DUMP_THRESHOLD)
          [] kind = "volatility_spike" ->
                /\ Len(k) >= 10
                /\ IsNum(k[1].high) /\ IsNum(k[1].low) /\ IsNum(k[1].close)
                /\ k[1].close.v # 0
                /\ PctGE(k[1].high.v - k[1].low.v, k[1].close.v,
                         config.VOLATILITY_THRESHOLD)
          [] kind = "breakout_up" ->
                /\ LevelsDefined(i)
                /\ Eligible[i].lastPrice.v * 1000 > Resistance(i) * 1001
          [] kind = "breakout_down" ->
                /\ LevelsDefined(i)
                /\ ~(Eligible[i].lastPrice.v * 1000 > Resistance(i) * 1001)
                /\ Eligible[i].lastPrice.v * 1000 < Support(i) * 999

\* the alerts are in the order of the passes, those of one pass in the order
\* of the detectors, each naming the symbol of its pass
AlertsInOrder ==
    /\ \A a \in DOMAIN alerts : alerts[a].symbol = Eligible[hist.origin[a]].symbol
    /\ \A a, b \in DOMAIN alerts :
          a < b => \/ hist.origin[a] < hist.origin[b]
                   \/ /\ hist.origin[a] = hist.origin[b]
                      /\ Rank(alerts[a].type) < Rank(alerts[b].type)

\* the symbols of the capped list that the cycle never got to
Unreached ==
    {i \in DOMAIN Eligible : i >= idx /\ "symbol" \in Eligible[i].has}

(* C15, as claimed: the alerts of a cycle list the symbols in scan order and
   the alerts of one symbol in the order volume spike, pump/dump, volatility,
   breakout; and the cycle emits exactly the alerts whose detector
   conditions hold for the symbols of its capped list. *)
C15_OrderedAndExact ==
    /\ AlertsInOrder
    /\ CycleOver =>
          /\ \A i \in Passes : \A kind \in Kinds :
                kind \in TypesOf(i) <=> Holds(kind, i)
          /\ \A i \in Unreached :
                ~VolumeHolds(Eligible[i], previous_data[Eligible[i].symbol])

(* C16, as claimed: when the condition of a detector holds for a symbol in a
   cycle and the symbol alerted with that kind in the cycle before, the
   alert is emitted again. *)
C16_RepeatedAlerts ==
    CycleOver =>
        \A i \in Passes : \A kind \in Kinds :
            (<<Eligible[i].symbol, kind>> \in hist.earlier /\ Holds(kind, i))
                => kind \in TypesOf(i)

----------------------------------------------------------------------------
(* The symbol filter: C17, C18 *)

\* the cycle has fetched and filtered a non-empty list
Filtered == pc # "scan" /\ tickers # <<>>

\* volume24h >= MIN_VOLUME_24H and MIN_PRICE <= lastPrice <= MAX_PRICE
InBounds(t) ==
    /\ IsNum(t.volume24h) /\ t.volume24h.v >= config.MIN_VOLUME_24H
    /\ IsNum(t.lastPrice)
    /\ config.MIN_PRICE <= t.lastPrice.v /\ t.lastPrice.v <= config.MAX_PRICE

(* C17, as claimed: the filter keeps a ticker iff volume24h >= MIN_VOLUME_24H
   and MIN_PRICE <= lastPrice <= MAX_PRICE, and the kept tickers are in
   their input order. *)
C17_FilterIff ==
    Filtered => symbols_to_scan = SelectSeq(tickers, InBounds)

\* volume24h or lastPrice is text float() rejects
Malformed(t) == ~Parses(Get(t, "volume24h")) \/ ~Parses(Get(t, "lastPrice"))
WellFormed(t) == ~Malformed(t)
Kept(t) == should_scan_symbol(config, t)

(* C18: a ticker whose volume24h or lastPrice cannot be parsed as a number
   is dropped, and the other tickers of the list are filtered as they are
   without it: the filtered list is the list of the well-formed tickers
   that the rule keeps, in order. *)
C18_MalformedDropped ==
    Filtered =>
        /\ \A i \in DOMAIN symbols_to_scan : WellFormed(symbols_to_scan[i])
        /\ symbols_to_scan = SelectSeq(SelectSeq(tickers, WellFormed), Kept)

\* a malformed ticker came before a ticker that was kept
C18_Witness ==
    /\ Filtered
    /\ Len(tickers) = 2
    /\ Malformed(tickers[1])
    /\ symbols_to_scan = <<tickers[2]>>

----------------------------------------------------------------------------
(* The cap and the empty fetch: C19, C20 *)

\* the passes made in the cycle so far
Processed == hist.done \cup hist.raised \cup hist.aborted

(* C19: in each cycle only the first MaxSymbolsPerCycle tickers of the
   filtered list are processed, in list order: the n-th pass is that of the
   n-th ticker, there are never more than MaxSymbolsPerCycle passes (candle
   fetches, detector runs), every alert comes from one of them, and a step
   changes the store only for the symbol of the ticker of its pass, within
   the prefix. *)
C19_OnlyCappedPrefix ==
    [][ /\ Len(hist'.klines) <= MaxSymbolsPerCycle
        /\ Len(hist'.klines) <= Len(symbols_to_scan')
        /\ Processed' = 1..Len(hist'.klines)
        /\ \A a \in DOMAIN alerts' :
              /\ hist'.origin[a] \in 1..MaxSymbolsPerCycle
              /\ alerts'[a].symbol = symbols_to_scan'[hist'.origin[a]].symbol
        /\ \A s \in Symbols :
              previous_data'[s] # previous_data[s]
                 => /\ pc = "symbols"
                    /\ idx <= MaxSymbolsPerCycle
                    /\ Len(hist'.klines) = idx
                    /\ symbols_to_scan[idx].symbol = s
                    /\ previous_data'[s] = <<symbols_to_scan[idx]>> ]_vars

\* a cycle is over whose filtered list was longer than the cap: the prefix
\* was processed and the ticker after it was not stored
C19_Witness ==
    /\ CycleOver
    /\ Len(symbols_to_scan) > MaxSymbolsPerCycle
    /\ hist.done = 1..MaxSymbolsPerCycle
    /\ "symbol" \in symbols_to_scan[MaxSymbolsPerCycle + 1].has
    /\ previous_data[symbols_to_scan[MaxSymbolsPerCycle + 1].symbol]
          # <<symbols_to_scan[MaxSymbolsPerCycle + 1]>>

\* scan_symbols returned at line 359: the fetch gave no ticker
EmptyCycle == pc = "sleep" /\ tickers = <<>>

(* C20: when the fetch fails or returns nothing, the cycle runs no
   detector, sends no message, leaves the store and alerts_sent unchanged
   and goes to the sleep of the scan interval (line 483), after which the
   next cycle starts. *)
C20_EmptyFetchSkips ==
    [][ /\ (pc = "scan" /\ pc' # "scan" /\ tickers' = <<>>)
            => /\ pc' = "sleep"
               /\ previous_data' = previous_data
               /\ alerts_sent' = alerts_sent
               /\ alerts' = <<>>
               /\ hist' = hist
               /\ Processed' = {} /\ hist'.broadcast = {} /\ hist'.userSends = {}
        /\ EmptyCycle
            => /\ pc' = "scan"
               /\ previous_data' = previous_data
               /\ alerts_sent' = alerts_sent
               /\ alerts' = <<>> ]_vars

\* a fetch that gave nothing, after a cycle that stored a ticker and sent an
\* alert: the store and the counter are as they were
C20_Witness ==
    /\ EmptyCycle
    /\ previous_data[BTC] # <<>>
    /\ alerts_sent > 0
    /\ hist.broadcast = {}

----------------------------------------------------------------------------
(* The loop of run: C21 - C24 *)

(* C21: an exception that arises in a cycle outside the per-symbol
   processing is followed by the backoff sleep of 30 s (line 490), not by
   the sleep of the scan interval (line 483), before the next cycle. *)
C21_BackoffAfterCycleError == hist.aborted # {} => pc = "backoff"

\* the scanner is inside the loop of run
InLoop == pc \in {"scan", "symbols", "send", "sleep", "backoff"}

(* C22: absent a stop signal the loop never ends: whatever the cycle in
   progress does (it succeeds, fetches nothing, has failing symbols or
   deliveries, or raises), another cycle starts eventually (as long as the
   model's count of cycles allows one). *)
C22_NextCycleStarts ==
    \A n \in 0..(MaxCycles - 1) : (InLoop /\ cycles = n) ~> (cycles = n + 1)

\* a cycle has started after a cycle that raised outside the per-symbol
\* processing
C22_Witness ==
    /\ cycles = 2
    /\ pc = "symbols"
    /\ hist.prior = "aborted"

(* C23: when the bot token or the chat id is missing at startup, run ends
   before the loop: no cycle is started, no snapshot is fetched and no
   message is sent. *)
C23_MissingSettingEndsRun ==
    ~(config.TELEGRAM_BOT_TOKEN /\ config.TELEGRAM_CHAT_ID)
        => /\ pc \in {"start", "stopped"}
           /\ cycles = 0
           /\ tickers = <<>>
           /\ hist.sent = <<>>
           /\ ~hist.startup

(* C24: when a stop signal arrives during a cycle, the scanner is Stopped
   only after the alerts the cycle has collected have all been dispatched
   (and the pass of the current symbol has ended). *)
C24_StopAfterDispatch ==
    pc = "stopped" =>
        /\ hist.broadcast = DOMAIN alerts
        /\ Processed = 1..(idx - 1)

----------------------------------------------------------------------------
(* The store and its readers: C25, C30 *)

(* C25: a read of the store by an accessor of the web server made during a
   cycle finds the store as it was before the cycle's updates or as it is
   after all of them (compared once the cycle is over), never in between. *)
C25_ReadsSeeWholeCycles ==
    (seen # <<>> /\ seen[1].cycle = cycles /\ pc \in {"sleep", "backoff"}) =>
        /\ seen[1].tracked \in {Tracked(hist.pre), Tracked(previous_data)}
        /\ seen[1].op = "api_symbols"
              => seen[1].store \in {hist.pre, previous_data}

----------------------------------------------------------------------------
(* Subscribers side by side: C26 *)

\* the instance `u` with every subscriber but user_id as at construction
Alone(u, user_id) ==
    [u EXCEPT !.watchlist = [v \in Users |-> IF v = user_id THEN @[v] ELSE <<>>],
              !.user_sessions = [v \in Users |-> IF v = user_id THEN @[v] ELSE "None"]]

\* the outcomes the last event can have for its subscriber when no other
\* subscriber has ever acted
OutcomesAlone ==
    IF last.op = "handle_message"
    THEN {handle_message(Alone(last.before, last.user), last.user, last.input, replied) :
             replied \in BOOLEAN}
    ELSE IF last.op = "handle_callback"
    THEN {handle_callback(Alone(last.before, last.user), last.user, last.input, raises) :
             raises \in 0..2}
    ELSE {}

(* C26: whatever the order in which the actions of different subscribers
   are handled, an action of subscriber u leaves the watchlist and the input
   state of every other subscriber unchanged, and what it does to u's own
   watchlist and input state is what it does when no other subscriber has
   acted (so each watchlist is the result of its owner's actions alone, in
   order). *)
C26_SubscribersIsolated ==
    last.op \in {"handle_message", "handle_callback"} =>
        /\ \A v \in Users \ {last.user} :
              /\ ui.watchlist[v] = last.before.watchlist[v]
              /\ ui.user_sessions[v] = last.before.user_sessions[v]
        /\ \E o \in OutcomesAlone :
              /\ o.answer = last.answer
              /\ o.ui.watchlist[last.user] = ui.watchlist[last.user]
              /\ o.ui.user_sessions[last.user] = ui.user_sessions[last.user]

\* a subscriber has added a symbol while another subscriber, whose watchlist
\* holds a symbol, was waiting to add one
C26_Witness ==
    /\ last.op = "handle_message"
    /\ last.answer = "symbol_added"
    /\ \E v \in Users \ {last.user} :
          /\ ui.watchlist[v] # <<>>
          /\ ui.user_sessions[v] = "adding_symbol"

----------------------------------------------------------------------------
(* The dispatch: C27 - C29 *)

\* the chats an alert is sent to: the broadcast chat and, when the module
\* global holds the instance, the users of send_alert_to_ui_users
Destinations ==
    {Chat} \cup (IF telegram_ui = "None" THEN {} ELSE send_alert_to_ui_users(ui))

\* the entries a step adds to the record of the dispatch
NewlySent == SubSeq(hist'.sent, Len(hist.sent) + 1, Len(hist'.sent))

\* the deliveries among them
NewMessages == {k \in DOMAIN NewlySent : NewlySent[k].kind = "message"}

(* C27: in a step of the send loop every destination of the alert gets its
   delivery attempt, exactly one, whichever of the deliveries fail, and the
   loop goes on to the next alert of the cycle. *)
C27_FailuresDoNotBlock ==
    [][ (pc = "send" /\ scanVars' # scanVars) =>
          /\ \A dest \in Destinations :
                Cardinality({k \in NewMessages :
                                /\ NewlySent[k].to = dest
                                /\ NewlySent[k].alert = didx}) = 1
          /\ didx' = didx + 1
          /\ pc' = IF didx < Len(alerts) THEN "send" ELSE "sleep" ]_vars

\* the dispatch of a cycle in which the delivery of the first alert failed at
\* the broadcast chat and at a user, another user got it, and the second
\* alert was delivered
C27_Witness ==
    \E i, j, k, l \in DOMAIN hist.sent :
        /\ i < j /\ j < k /\ k < l
        /\ hist.sent[i] = Message(1, Chat, FALSE)
        /\ hist.sent[j].kind = "message" /\ hist.sent[j].alert = 1
        /\ hist.sent[j].to # Chat /\ ~hist.sent[j].ok
        /\ hist.sent[k].kind = "message" /\ hist.sent[k].alert = 1
        /\ hist.sent[k].to # Chat /\ hist.sent[k].ok
        /\ hist.sent[l].kind = "message" /\ hist.sent[l].alert = 2

\* the deliveries of alert a attempted at the broadcast chat, in the record
\* `sent`
ChatAttempts(sent, a) ==
    {k \in DOMAIN sent : /\ sent[k].kind = "message"
                         /\ sent[k].to = Chat
                         /\ sent[k].alert = a}

(* C28: once a cycle is over each of its alerts has had exactly one delivery
   attempt at the broadcast chat; and a step of the send loop makes one
   attempt, repeats none, goes on whether it failed or not, and raises
   alerts_sent by one iff the attempt succeeded. *)
C28_OneAttemptCounted ==
    [][ /\ (pc' = "sleep" /\ tickers' # <<>>)
            => \A a \in DOMAIN alerts' :
                  Cardinality(ChatAttempts(hist'.sent, a)) = 1
        /\ (pc = "send" /\ scanVars' # scanVars)
            => /\ Cardinality(ChatAttempts(hist'.sent, didx)) = 1
               /\ \A a \in DOMAIN alerts :
                     a # didx => ChatAttempts(hist'.sent, a) = ChatAttempts(hist.sent, a)
               /\ alerts_sent' = alerts_sent
                     + (IF \E k \in ChatAttempts(hist'.sent, didx) : hist'.sent[k].ok
                        THEN 1 ELSE 0)
               /\ pc' \in {"send", "sleep"} ]_vars

(* C29: between two consecutive deliveries of a dispatch the delay of the
   send loop elapses, so the dispatch of N alerts holds at least N - 1
   delays. *)
C29_DeliveriesPaced ==
    /\ \A k \in DOMAIN hist.sent :
          (k > 1 /\ hist.sent[k].kind = "message") => hist.sent[k - 1].kind = "delay"
    /\ Cardinality({k \in DOMAIN hist.sent : hist.sent[k].kind = "delay"})
          >= Cardinality(hist.broadcast) - 1

----------------------------------------------------------------------------
(* The life of the store: C30 *)

(* C30: the store holds at most one entry per symbol, that of the symbol's
   own snapshot, and no step removes an entry: the entry of a symbol changes
   only when a pass of the symbol loop writes the snapshot of that symbol,
   so a symbol that is absent from a fetch, filtered out or beyond the cap
   keeps its entry, and the key set never shrinks. *)
C30_StoreOnlyGrows ==
    [][ \A s \in Symbols :
          /\ Len(previous_data'[s]) <= 1
          /\ previous_data'[s] # <<>> => previous_data'[s][1].symbol = s
          /\ previous_data[s] # <<>> => previous_data'[s] # <<>>
          /\ previous_data'[s] # previous_data[s]
                => /\ pc = "symbols"
                   /\ Capped(symbols_to_scan)[idx].symbol = s
                   /\ previous_data'[s] = <<Capped(symbols_to_scan)[idx]>> ]_vars

\* a second cycle is over whose fetch did not return BTC, and the store
\* still holds the snapshot of BTC of the first cycle
C30_Witness ==
    /\ CycleOver
    /\ cycles = 2
    /\ \A i \in DOMAIN tickers : "symbol" \in tickers[i].has /\ tickers[i].symbol # BTC
    /\ hist.done # {}
    /\ previous_data[BTC] # <<>>
    /\ previous_data[BTC] = hist.pre[BTC]

----------------------------------------------------------------------------
(* Failures of the exchange: C31 *)

(* C31: no failure of an exchange or transport call leaves scan_symbols as
   an exception (run never takes the sleep of its except), and a candle
   fetch that failed is an empty window: the pass of its symbol ends
   normally with no candle-based alert, and the loop goes on to the next
   symbol of the list. *)
C31_FetchFailureContained ==
    /\ pc # "backoff"
    /\ \A i \in Passes :
          hist.klines[i] = <<>>
             => /\ i \in hist.done
                /\ TypesOf(i) \subseteq {"volume_spike"}
                /\ i < Len(Eligible)
                      => \/ Len(hist.klines) > i
                         \/ pc = "symbols" /\ idx = i + 1

\* a cycle is over in which the candle fetch of the first symbol failed and
\* the second symbol was then processed with its candles and alerted
C31_Witness ==
    /\ CycleOver
    /\ Len(hist.klines) = 2
    /\ hist.klines[1] = <<>> /\ 1 \in hist.done
    /\ hist.klines[2] # <<>> /\ 2 \in hist.done
    /\ TypesOf(2) # {}

----------------------------------------------------------------------------
(* What is sent, and to whom: C32, C33 *)

(* C32: a subscriber is sent an alert only when the alert's symbol is in the
   subscriber's watchlist at the time of the dispatch; a subscriber whose
   watchlist is empty is sent none. *)
C32_OnlyWatchedSymbols == hist.userSends \subseteq hist.watching

\* the messages of the cycle sent to the broadcast chat
ChatMessages ==
    {k \in DOMAIN hist.sent : hist.sent[k].kind = "message" /\ hist.sent[k].to = Chat}

\* every message of the cycle to the broadcast chat is that of an alert that
\* a pass of this cycle appended, each alert at most once
AlertsOnly ==
    /\ \A k \in ChatMessages :
          /\ hist.sent[k].alert \in DOMAIN alerts
          /\ hist.origin[hist.sent[k].alert] \in Passes
    /\ \A k, l \in ChatMessages : hist.sent[k].alert = hist.sent[l].alert => k = l

(* C33, as claimed: every message sent to the broadcast chat is the
   rendering of an alert that a detector produced in the current cycle;
   nothing else is ever sent to it. *)
C33_NothingButAlerts == ~hist.startup /\ AlertsOnly

(* C33, amended: every message a scan cycle sends to the broadcast chat is
   the rendering of an alert that a detector produced in that cycle, and no
   failure (of a fetch, of a symbol, of a cycle, of a delivery) sends a
   message; the one other message run sends there is its startup notice,
   sent before the first cycle when the bot token and a chat id are
   configured. *)
C33_AlertsAndStartupNotice ==
    /\ AlertsOnly
    /\ hist.startup <=> (/\ pc # "start"
                         /\ config.TELEGRAM_BOT_TOKEN
                         /\ config.TELEGRAM_CHAT_ID)

\* after the startup notice, a cycle is over in which a pass raised, an
\* alert was delivered and the delivery of another failed
C33_Witness ==
    /\ hist.startup
    /\ CycleOver
    /\ hist.raised # {}
    /\ \E k, l \in ChatMessages : hist.sent[k].ok /\ ~hist.sent[l].ok

----------------------------------------------------------------------------
(* The states of the orchestrator: C34, C35 *)

\* the state of the orchestrator: Idle before run has validated the
\* settings, Running inside scan_symbols, Sleeping in a sleep of the loop
OrchState ==
    IF pc = "start" THEN "Idle"
    ELSE IF pc \in {"scan", "symbols", "send"} THEN "Running"
    ELSE IF pc \in {"sleep", "backoff"} THEN "Sleeping"
    ELSE "Stopped"

(* C34: the orchestrator goes from Idle to Running, from Running to
   Sleeping, from Sleeping to Running, and from anywhere to Stopped, and
   nowhere else; in Stopped nothing of the scanner changes any more; a cycle
   starts only in Running after a sleep (or the start), with nothing of the
   cycle before left, and the send loop is never left half-way for a
   sleep. *)
C34_OrchestratorStates ==
    [][ /\ OrchState' # OrchState
            => \/ OrchState' = "Stopped"
               \/ <<OrchState, OrchState'>> \in {<<"Idle", "Running">>,
                                                 <<"Running", "Sleeping">>,
                                                 <<"Sleeping", "Running">>}
        /\ OrchState = "Stopped" => scanVars' = scanVars
        /\ (pc' = "scan" /\ pc # "scan") => pc \in {"start", "sleep", "backoff"}
        /\ cycles' # cycles
            => /\ cycles' = cycles + 1
               /\ pc = "scan"
               /\ alerts = <<>> /\ hist.sent = <<>> /\ Processed = {}
        /\ (OrchState = "Running" /\ OrchState' = "Sleeping")
            => hist'.broadcast \in {{}, DOMAIN alerts'} ]_vars

\* the scanner was stopped in its second cycle, which followed a cycle that
\* dispatched an alert and the sleep after it
C34_Witness ==
    /\ pc = "stopped"
    /\ cycles = 2
    /\ hist.prior = "done"
    /\ hist.earlier # {}

(* C35: in a cycle a message is sent only once every symbol of the capped
   list has been processed, and sending changes neither the store nor the
   alerts nor the candles read; the store and the alerts of a cycle change
   only while nothing of the cycle has been sent. *)
C35_DetectThenDeliver ==
    [][ /\ (hist'.sent # hist.sent /\ hist'.sent # <<>>)
            => /\ pc = "send"
               /\ Processed = 1..Len(Eligible)
               /\ idx > Len(Eligible)
               /\ previous_data' = previous_data
               /\ alerts' = alerts
               /\ hist'.klines = hist.klines
        /\ (previous_data' # previous_data \/ Len(alerts') > Len(alerts))
            => hist.sent = <<>> /\ hist'.sent = <<>> ]_vars

\* the alert of the first symbol was sent after the second symbol had been
\* processed and stored
C35_Witness ==
    /\ CycleOver
    /\ Len(Eligible) = 2
    /\ hist.done = {1, 2}
    /\ alerts # <<>> /\ hist.origin[1] = 1
    /\ hist.broadcast = DOMAIN alerts
    /\ \A i \in 1..2 : previous_data[Eligible[i].symbol] = <<Eligible[i]>>

----------------------------------------------------------------------------
(* The scanner threads and the totals of the status surface: C36, C37 *)

(* C36: at most one scanner thread is inside the loop of run, and it is the
   thread of the scanner the accessors read. *)
C36_AtMostOneLoop ==
    /\ Cardinality(Looping) <= 1
    /\ \A t \in Looping : t.id = app.scanner

RECURSIVE DeliveredBy(_)
\* the deliveries to the chat that succeeded, over the threads `ts`
DeliveredBy(ts) ==
    IF ts = {} THEN 0
    ELSE LET t == CHOOSE x \in ts : TRUE
         IN  t.state.hist.delivered + Succeeded(t.state.hist.sent)
                + DeliveredBy(ts \ {t})

(* C37: the totals of alerts sent that home and status expose are the
   number of deliveries to the chat that have succeeded so far. *)
C37_TotalIsDeliveries ==
    /\ HomeAlertsSent = DeliveredBy(Threads)
    /\ StatusAlertsSent = DeliveredBy(Threads)

----------------------------------------------------------------------------
(* The watchlists and the input state: C38, C39 *)

(* C38: every entry of every watchlist is in upper case, has no white space
   at its ends and more than two characters, and is in its list once. *)
C38_WatchlistsWellFormed ==
    \A u \in Users :
       LET w == ui.watchlist[u]
       IN  \A i \in DOMAIN w :
              /\ Upper(w[i]) = w[i]
              /\ Strip(w[i]) = w[i]
              /\ Len(w[i]) > 2
              /\ \A j \in DOMAIN w : w[j] = w[i] => j = i

\* " BTC " was added as BTC to a watchlist that held ASS, and the other
\* user sent "btc" once more after adding it
C38_Witness ==
    /\ last.op = "handle_message"
    /\ last.input = <<" ">> \o BTC \o <<" ">>
    /\ last.answer = "symbol_added"
    /\ ui.watchlist[last.user] = <<ASS, BTC>>
    /\ \E v \in Users \ {last.user} : ui.watchlist[v] = <<BTC>>

\* the buttons that do not ask for a symbol
OtherButtons == MenuInputs \ {<<"watchlist_", "add">>}

(* C39: the input state adding_symbol of a user is left only by a text
   message of that user; a button other than watchlist_add changes no input
   state; and a text message of a user in adding_symbol is taken as a symbol
   candidate. *)
C39_OnlyTextLeavesInput ==
    [][ /\ \A u \in Users :
              (ui.user_sessions[u] = "adding_symbol"
                  /\ ui'.user_sessions[u] # "adding_symbol")
                 => last'.op = "handle_message" /\ last'.user = u
        /\ (last'.op \in {"handle_callback", "cmd_start"} /\ last'.input \in OtherButtons \cup {<<>>})
              => ui'.user_sessions = ui.user_sessions
        /\ (last'.op = "handle_message"
               /\ ui.user_sessions[last'.user] = "adding_symbol")
              => last'.answer \in {"symbol_added", "already_in_watchlist",
                                   "invalid_symbol"} ]_vars

\* a user who had been through the main menu sent a text while in
\* adding_symbol, and it was added
C39_Witness ==
    /\ last.op = "handle_message"
    /\ last.answer = "symbol_added"
    /\ last.before.user_sessions[last.user] = "adding_symbol"
    /\ last.user \in last.before.authorized_users
    /\ ui.user_sessions[last.user] = "None"

====
